---- MODULE Spec2Model ----
(***************************************************************************)
(* Verification model of the SCADA ingestion runtime                       *)
(* (apps/scada-ingestion): the connection health monitor with its circuit  *)
(* breaker, the reconnection driver, the per-tenant aggregator, the tenant *)
(* router and the protocol adapters.                                       *)
(*                                                                         *)
(* The specifications that share the module:                               *)
(*   SpecHM      - one HealthMonitor driven by arbitrary API calls         *)
(*   SpecDriver  - one ReconnectionStrategy::reconnect loop per connection *)
(*   SpecAgg     - one Aggregator with its ticker task, the router's       *)
(*                 routing task and a manual flusher                       *)
(*   SpecRouter  - the TenantRouter: poll loop, gRPC API, tickers          *)
(*   SpecStop    - the TenantRouter shut down by stop_all_connections      *)
(*   SpecAdapter - one protocol adapter of any of the seven types          *)
(*   SpecFn      - the pure functions, each applied to one argument        *)
(*   SpecValidator, SpecS8 - one DataValidator                             *)
(*   SpecLocks   - tasks sharing one HealthMonitor, lock by lock           *)
(*   SpecAggLive, SpecDriverFail - the aggregator and the reconnect loop   *)
(*                 under fairness, for the liveness properties             *)
(*   SpecAdd     - concurrent add_connection / remove_connection calls     *)
(*   SpecLegacy  - the OPC-UA router with its spawned connect tasks        *)
(* Time is an integer number of milliseconds.                              *)
(***************************************************************************)
EXTENDS Integers, Sequences, FiniteSets, TLC

VARIABLES
    \* ---- shared ----
    now,            \* the clock (Utc::now / Instant::now), in milliseconds
    cfg,            \* ReconnectionConfig of the monitor(s)
    \* ---- SpecHM: one HealthMonitor ----
    hm,             \* the monitor: ConnectionHealth + circuit_breaker_opened_at
    prev,           \* history: the monitor before the last call
    lastOp,         \* history: name of the last call
    ret,            \* history: value returned by the last can_attempt_connection
    lastRec,        \* history: the last of record_success / record_failure
    onlyFailures,   \* history: every call so far was record_failure
    halfOpened,     \* history: Open->HalfOpen happened since the last record_*
    recCalls,       \* history: number of record_success and record_failure calls
    \* ---- SpecDriver: reconnect loop per connection ----
    mons,           \* connection -> monitor
    dpc,            \* connection -> position of its reconnect loop
    wakeAt,         \* connection -> time at which the current sleep ends
    sleepDur,       \* connection -> duration of the current / last sleep
    iterCan,        \* history: can_attempt_connection result of this iteration
    iterMax,        \* history: is_max_retries_reached result of this iteration
    connects,       \* history: connection -> number of connect_fn calls
    fatalSeen,      \* history: connection -> a connect failed with a fatal kind
    result,         \* connection -> value returned by reconnect
    \* ---- SpecAgg: one Aggregator and the tasks that use it ----
    aggCfg,         \* AggregationConfig
    buffer,         \* Aggregator.buffer: the pending readings
    bufLock,        \* holder of the write lock of buffer, or None
    last_flush,     \* Aggregator.last_flush
    apc,            \* task -> position in add_reading / flush_internal / ticker
    readings,       \* task -> its local batch `readings`
    nextTick,       \* deadline of the ticker's next interval.tick()
    nextId,         \* history: number of the next reading to be added
    lastTake,       \* history: buffer before / after the last extraction
    extracted,      \* history: the extracted batches, in extraction order
    writes,         \* history: the arguments of the write_batch calls
    writeResults,   \* history: number of write_batch calls that returned
    lost,           \* history: the batches whose write_batch returned Err
    addRet,         \* history: value returned by the last add_reading
    \* ---- SpecRouter: the TenantRouter with its poll loop ----
    adapters,       \* TenantRouter.adapters: the connection ids in the map
    aggregators,    \* TenantRouter.aggregators: tenant id -> Aggregator
    adLock,         \* RwLock of adapters: [w |-> writer or None, r |-> readers]
    agLock,         \* RwLock of aggregators
    rpc,            \* router task -> position
    pollTodo,       \* poll loop: adapters still to visit in this iteration
    pollCur,        \* poll loop: the adapter being polled / routed
    pollQueue,      \* poll loop: readings of the current poll still to route
    tickerBatch,    \* tenant -> local batch of that aggregator's ticker
    written,        \* history: the write_batch calls, [tenant_id, batch]
    rNextId,        \* history: number of the next reading an adapter emits
    pollTicks,      \* history: number of poll ticks
    apiOps,         \* history: number of add_connection / remove_connection calls
    apiArg,         \* the connection id of the API call in progress, or of
                    \* the last remove_connection if it found no adapter
    apiResult,      \* value returned by the last API call
    stopSnapshot,   \* history: readings buffered when stop_all_connections was called
    stopAdapters,   \* history: adapter map when stop_all_connections locked it
    stopFlushTodo,  \* stop_all_connections: aggregators still to flush
    disconnectCalls,\* history: adapters on which stop_all_connections called disconnect
    flushCalls,     \* history: tenants on which stop_all_connections called flush
    stopFailed,     \* history: a disconnect or flush of stop_all_connections failed
    pollFailStreak, \* history: connection -> consecutive failed polls
    \* ---- SpecAdapter: one protocol adapter ----
    adp,            \* the adapter object
    adpPrev,        \* history: the adapter before the last call
    adpOp,          \* history: name of the last call
    adpRet,         \* history: value returned by the last call
    adpOps,         \* history: number of calls
    adpArg,         \* history: the mapping list of the last subscribe call
    \* ---- SpecFn: the pure functions ----
    call,           \* the function called and its arguments
    fnRet,          \* <<the value it returned>>, <<>> before the call returns
    \* ---- SpecValidator / SpecS8: one DataValidator ----
    dvCfg,          \* ValidationConfig
    statistics,     \* tag name -> StatisticalTracker, for the tags with an entry
    dvPrev,         \* history: statistics before the last validate_reading
    dvReading,      \* history: the reading of the last validate_reading
    dvRet,          \* history: its result: "Ok" or the filter that rejected
    dvOps,          \* history: number of validate_reading calls
    fed,            \* history: number of scenario samples fed
    \* ---- SpecLocks: tasks sharing one HealthMonitor, lock by lock ----
    health,         \* ConnectionHealth behind the health lock
    circuit_breaker_opened_at,  \* "None" or "Some", behind its own lock
    healthLock,     \* RwLock state of health: writer and readers
    openedLock,     \* RwLock state of circuit_breaker_opened_at
    tpc,            \* task -> position in its call
    lockCalls,      \* history: number of calls started
    \* ---- SpecAdd: concurrent add_connection / remove_connection calls ----
    adapterMap,     \* TenantRouter.adapters: connection id -> adapter
    aggregatorMap,  \* TenantRouter.aggregators: tenant id -> aggregator
    adapterLock,    \* RwLock state of adapters
    aggregatorLock, \* RwLock state of aggregators
    gpc,            \* gRPC task -> position in its call
    gConn,          \* gRPC task -> connection id of its call
    gAdapter,       \* gRPC task -> the adapter it owns
    nextAdapter,    \* history: number of the next adapter created
    created,        \* history: tenant -> number of Aggregator::new calls
    tickers,        \* history: tenant -> number of ticker tasks spawned
    disconnected,   \* history: adapters on which disconnect was called
    discarded,      \* history: adapters taken out of the map and dropped
    addOps,         \* history: number of API calls started
    routed,         \* history: number of readings routed to aggregators
    \* ---- SpecLegacy: the OPC-UA router and its spawned connect tasks ----
    opc_clients,    \* TenantRouter.opc_clients: the connection ids present
    ACTIVE_CONNECTIONS, \* metrics gauge: tenant -> value
    connectTasks,   \* connection -> spawned connect tasks that have not run
    lpc,            \* API task -> position in its call
    lConn,          \* API task -> connection id of its call
    legacyOps       \* history: number of API calls started

hmVars  == <<hm, prev, lastOp, ret, lastRec, onlyFailures, halfOpened,
             recCalls>>
drvVars == <<mons, dpc, wakeAt, sleepDur, iterCan, iterMax, connects, fatalSeen, result>>
aggVars == <<aggCfg, buffer, bufLock, last_flush, apc, readings, nextTick,
             nextId, lastTake, extracted, writes, writeResults, lost, addRet>>
rtVars  == <<adapters, aggregators, adLock, agLock, rpc, pollTodo, pollCur,
             pollQueue, tickerBatch, written, rNextId, pollTicks, apiOps,
             apiArg, apiResult, stopSnapshot, stopAdapters, stopFlushTodo,
             disconnectCalls, flushCalls, stopFailed, pollFailStreak>>
adpVars == <<adp, adpPrev, adpOp, adpRet, adpOps, adpArg>>
fnVars  == <<call, fnRet>>
dvVars  == <<dvCfg, statistics, dvPrev, dvReading, dvRet, dvOps, fed>>
lkVars  == <<health, circuit_breaker_opened_at, healthLock, openedLock, tpc,
             lockCalls>>
addVars == <<adapterMap, aggregatorMap, adapterLock, aggregatorLock, gpc, gConn,
             gAdapter, nextAdapter, created, tickers, disconnected, discarded,
             addOps, routed>>
lgVars  == <<opc_clients, ACTIVE_CONNECTIONS, connectTasks, lpc, lConn, legacyOps>>
moreVars == <<lkVars, addVars, lgVars>>
vars    == <<now, cfg, hmVars, drvVars, aggVars, rtVars, adpVars, fnVars, dvVars,
             moreVars>>

None == "None"

(* Option<DateTime<Utc>>::None of a timestamp field *)
NoTime == -1

-----------------------------------------------------------------------------
(* Bounds of the model. *)

MaxThreshold == 2       \* circuit_breaker_threshold ranges over 1..MaxThreshold
MaxOps       == 5       \* record_success + record_failure calls on the monitor
MaxClockMs   == 2500    \* SpecHM stops the clock here
TickMs       == 500     \* SpecHM clock step

MaxConnects  == 5       \* connect_fn calls per reconnection driver
MaxDriverClockMs == 24000   \* SpecDriver stops the clock here
MaxBufferSize == 2      \* max_buffer_size ranges over 1..MaxBufferSize
MaxReadings  == 3       \* add_reading calls on the aggregator
MaxAggClockMs == 4000   \* SpecAgg stops the clock here
AggTickMs    == 1000    \* SpecAgg clock step

FlushIntervalChoices == {2000}   \* buffer_duration_ms

TimeoutChoices  == {1}        \* circuit_breaker_timeout_secs (SpecHM)
DriverTimeoutChoices == {5}   \* circuit_breaker_timeout_secs (SpecDriver)
MaxRetryChoices == {0, 3}     \* max_retry_attempts (0 = infinite)

-----------------------------------------------------------------------------
(* health/mod.rs: ConnectionStatus, CircuitBreakerState, ReconnectionConfig *)

ConnectionStatus    == {"Connected", "Disconnected", "Reconnecting", "CircuitOpen"}
CircuitBreakerState == {"Closed", "Open", "HalfOpen"}

ReconnectionConfig(threshold, timeoutSecs, maxRetry) ==
    [ initial_backoff_ms           |-> 1000,
      max_backoff_ms               |-> 4000,
      backoff_multiplier           |-> 2,
      max_retry_attempts           |-> maxRetry,
      circuit_breaker_threshold    |-> threshold,
      circuit_breaker_timeout_secs |-> timeoutSecs ]

Configs ==
    { ReconnectionConfig(t, c, m) :
        t \in 1..MaxThreshold,
        c \in TimeoutChoices \cup DriverTimeoutChoices,
        m \in MaxRetryChoices }

(* max_retry_attempts is read by the reconnection driver only *)
ConfigsHM ==
    { c \in Configs : /\ c.max_retry_attempts = 0
                      /\ c.circuit_breaker_timeout_secs \in TimeoutChoices }

ConfigsDriver ==
    { c \in Configs : c.circuit_breaker_timeout_secs \in DriverTimeoutChoices }

(* HealthMonitor::new *)
NewMonitor ==
    [ status                    |-> "Disconnected",
      last_successful_reading   |-> NoTime,
      last_connection_attempt   |-> NoTime,
      consecutive_failures      |-> 0,
      total_failures            |-> 0,
      total_successes           |-> 0,
      circuit_breaker_state     |-> "Closed",
      circuit_breaker_opened_at |-> NoTime ]

(* A record_success that closes the breaker but leaves the status alone. *)
RecordSuccess_keepStatus(m, t) ==
    LET h == [m EXCEPT !.last_successful_reading = t,
                       !.consecutive_failures = 0,
                       !.total_successes = @ + 1]
    IN  IF h.circuit_breaker_state # "Closed"
        THEN [h EXCEPT !.circuit_breaker_state = "Closed",
                       !.circuit_breaker_opened_at = NoTime]
        ELSE [h EXCEPT !.status = "Connected"]

(* A record_success that does not zero the failure streak. *)
RecordSuccess_noReset(m, t) ==
    LET h == [m EXCEPT !.last_successful_reading = t,
                       !.total_successes = @ + 1,
                       !.status = "Connected"]
    IN  IF h.circuit_breaker_state # "Closed"
        THEN [h EXCEPT !.circuit_breaker_state = "Closed",
                       !.circuit_breaker_opened_at = NoTime]
        ELSE h

(* HealthMonitor::record_success *)
RecordSuccess(m, t) ==
    LET h == [m EXCEPT !.last_successful_reading = t,
                       !.consecutive_failures = 0,
                       !.total_successes = @ + 1,
                       !.status = "Connected"]
    IN  IF h.circuit_breaker_state # "Closed"
        THEN [h EXCEPT !.circuit_breaker_state = "Closed",
                       !.circuit_breaker_opened_at = NoTime]
        ELSE h

(* HealthMonitor::record_failure *)
(* A record_failure that counts only the consecutive failures. *)
RecordFailure_noTotal(m, t, c) ==
    LET h == [m EXCEPT !.consecutive_failures = @ + 1,
                       !.status = "Disconnected"]
    IN  IF h.consecutive_failures >= c.circuit_breaker_threshold
           /\ h.circuit_breaker_state = "Closed"
        THEN [h EXCEPT !.circuit_breaker_state = "Open",
                       !.status = "CircuitOpen",
                       !.circuit_breaker_opened_at = t]
        ELSE h

RecordFailure(m, t, c) ==
    LET h == [m EXCEPT !.consecutive_failures = @ + 1,
                       !.total_failures = @ + 1,
                       !.status = "Disconnected"]
    IN  IF h.consecutive_failures >= c.circuit_breaker_threshold
           /\ h.circuit_breaker_state = "Closed"
        THEN [h EXCEPT !.circuit_breaker_state = "Open",
                       !.status = "CircuitOpen",
                       !.circuit_breaker_opened_at = t]
        ELSE h

(* HealthMonitor::record_connection_attempt *)
RecordConnectionAttempt(m, t) ==
    [m EXCEPT !.last_connection_attempt = t, !.status = "Reconnecting"]

(* A transition that forgets to reset the failure counter. *)
TransitionToHalfOpen_keep(m) ==
    IF m.circuit_breaker_state = "Open"
    THEN [m EXCEPT !.circuit_breaker_state = "HalfOpen"]
    ELSE m

(* HealthMonitor::transition_to_half_open *)
TransitionToHalfOpen(m) ==
    IF m.circuit_breaker_state = "Open"
    THEN [m EXCEPT !.circuit_breaker_state = "HalfOpen",
                   !.consecutive_failures = 0]
    ELSE m

(* Utc::now().signed_duration_since(opened_at).num_seconds(): whole        *)
(* seconds, truncated; the clock of the model never runs backwards.        *)
ElapsedSecs(opened_at, t) == (t - opened_at) \div 1000

(* The Open arm of can_attempt_connection: has the circuit timeout passed? *)
TimeoutElapsed(m, t, c) ==
    /\ m.circuit_breaker_state = "Open"
    /\ m.circuit_breaker_opened_at # NoTime
    /\ ElapsedSecs(m.circuit_breaker_opened_at, t) >= c.circuit_breaker_timeout_secs

(* HealthMonitor::can_attempt_connection: the value returned *)
CanAttemptResult(m, t, c) ==
    CASE m.circuit_breaker_state = "Closed"   -> TRUE
      [] m.circuit_breaker_state = "Open"     -> TimeoutElapsed(m, t, c)
      [] m.circuit_breaker_state = "HalfOpen" -> TRUE

(* HealthMonitor::can_attempt_connection: the monitor it leaves behind *)
CanAttemptMonitor(m, t, c) ==
    IF TimeoutElapsed(m, t, c) THEN TransitionToHalfOpen(m) ELSE m

-----------------------------------------------------------------------------
(* SpecHM: the API of one HealthMonitor, called in any order.              *)

DriverIdle ==
    /\ mons = None /\ dpc = None /\ wakeAt = None /\ sleepDur = None
    /\ iterCan = None /\ iterMax = None /\ connects = None
    /\ fatalSeen = None /\ result = None

AggIdle ==
    /\ aggCfg = None /\ buffer = <<>> /\ bufLock = None /\ last_flush = 0
    /\ apc = None /\ readings = None /\ nextTick = 0 /\ nextId = 1
    /\ lastTake = None /\ extracted = <<>> /\ writes = <<>>
    /\ writeResults = 0 /\ lost = {} /\ addRet = None

RouterIdle ==
    /\ adapters = {} /\ aggregators = None /\ adLock = None /\ agLock = None
    /\ rpc = None /\ pollTodo = {} /\ pollCur = None /\ pollQueue = <<>>
    /\ tickerBatch = None /\ written = {} /\ rNextId = 1 /\ pollTicks = 0
    /\ apiOps = 0 /\ apiArg = None /\ apiResult = None /\ stopSnapshot = {}
    /\ stopAdapters = {} /\ stopFlushTodo = {} /\ disconnectCalls = {}
    /\ flushCalls = {} /\ stopFailed = FALSE /\ pollFailStreak = None

AdapterIdle ==
    /\ adp = None /\ adpPrev = None /\ adpOp = None /\ adpRet = None
    /\ adpOps = 0 /\ adpArg = <<>>

FnIdle ==
    /\ call = [fn |-> "none"] /\ fnRet = <<>>

NoReading == [tag_name |-> "none", value |-> 0, quality |-> "Good"]

ValidatorIdle ==
    /\ dvCfg = None /\ statistics = <<>> /\ dvPrev = <<>>
    /\ dvReading = NoReading /\ dvRet = None /\ dvOps = 0 /\ fed = 0

LocksIdle ==
    /\ health = None /\ circuit_breaker_opened_at = None
    /\ healthLock = None /\ openedLock = None /\ tpc = <<>> /\ lockCalls = 0

AddIdle ==
    /\ adapterMap = <<>> /\ aggregatorMap = <<>>
    /\ adapterLock = None /\ aggregatorLock = None
    /\ gpc = <<>> /\ gConn = <<>> /\ gAdapter = <<>> /\ nextAdapter = 1
    /\ created = <<>> /\ tickers = <<>> /\ disconnected = {} /\ discarded = {}
    /\ addOps = 0 /\ routed = 0

LegacyIdle ==
    /\ opc_clients = {} /\ ACTIVE_CONNECTIONS = <<>> /\ connectTasks = <<>>
    /\ lpc = <<>> /\ lConn = <<>> /\ legacyOps = 0

MoreIdle == LocksIdle /\ AddIdle /\ LegacyIdle

InitHM ==
    /\ now = 0
    /\ cfg \in ConfigsHM
    /\ hm = NewMonitor
    /\ prev = NewMonitor
    /\ lastOp = "new"
    /\ ret = FALSE
    /\ lastRec = None
    /\ onlyFailures = TRUE
    /\ halfOpened = FALSE
    /\ recCalls = 0
    /\ DriverIdle
    /\ AggIdle
    /\ RouterIdle
    /\ AdapterIdle
    /\ FnIdle
    /\ ValidatorIdle
    /\ MoreIdle

Recorded(m) == m.total_successes + m.total_failures

HMRecordSuccess ==
    /\ Recorded(hm) < MaxOps
    /\ recCalls < MaxOps
    /\ recCalls' = recCalls + 1
    /\ hm' = RecordSuccess(hm, now)
    /\ prev' = hm
    /\ lastOp' = "record_success"
    /\ lastRec' = "success"
    /\ onlyFailures' = FALSE
    /\ halfOpened' = FALSE
    /\ UNCHANGED <<now, cfg, ret, drvVars, aggVars, rtVars, adpVars, fnVars, dvVars, moreVars>>

HMRecordFailure ==
    /\ Recorded(hm) < MaxOps
    /\ recCalls < MaxOps
    /\ recCalls' = recCalls + 1
    /\ hm' = RecordFailure(hm, now, cfg)
    /\ prev' = hm
    /\ lastOp' = "record_failure"
    /\ lastRec' = "failure"
    /\ halfOpened' = FALSE
    /\ UNCHANGED <<now, cfg, ret, onlyFailures, drvVars, aggVars, rtVars, adpVars, fnVars, dvVars, moreVars>>

HMRecordConnectionAttempt ==
    /\ hm' = RecordConnectionAttempt(hm, now)
    /\ prev' = hm
    /\ lastOp' = "record_connection_attempt"
    /\ onlyFailures' = FALSE
    /\ UNCHANGED <<now, cfg, ret, lastRec, halfOpened, recCalls, drvVars, aggVars, rtVars, adpVars, fnVars, dvVars, moreVars>>

HMCanAttemptConnection ==
    /\ ret' = CanAttemptResult(hm, now, cfg)
    /\ hm' = CanAttemptMonitor(hm, now, cfg)
    /\ prev' = hm
    /\ lastOp' = "can_attempt_connection"
    /\ onlyFailures' = FALSE
    /\ halfOpened' = (halfOpened \/ (hm.circuit_breaker_state = "Open"
                                     /\ hm'.circuit_breaker_state = "HalfOpen"))
    /\ UNCHANGED <<now, cfg, lastRec, recCalls, drvVars, aggVars, rtVars, adpVars, fnVars, dvVars, moreVars>>

HMTick ==
    /\ now + TickMs <= MaxClockMs
    /\ now' = now + TickMs
    /\ lastOp' = "tick"
    /\ UNCHANGED <<cfg, hm, prev, ret, lastRec, onlyFailures, halfOpened, recCalls,
                   drvVars, aggVars, rtVars, adpVars, fnVars, dvVars, moreVars>>

NextHM ==
    \/ HMRecordSuccess
    \/ HMRecordFailure
    \/ HMRecordConnectionAttempt
    \/ HMCanAttemptConnection
    \/ HMTick

SpecHM == InitHM /\ [][NextHM]_vars

-----------------------------------------------------------------------------
(* adapters/mod.rs: ProtocolError and its classification                   *)

ErrorKinds ==
    { "ConnectionFailed", "NotConnected", "AuthenticationFailed",
      "SubscriptionFailed", "ReadFailed", "InvalidAddress",
      "InvalidConfiguration", "UnsupportedProtocol", "ProtocolSpecific",
      "Timeout", "IoError" }

(* ProtocolError::is_retryable *)
IsRetryable(e) ==
    e \in {"ConnectionFailed", "NotConnected", "Timeout", "IoError", "ReadFailed"}

(* ProtocolError::is_fatal *)
IsFatal(e) ==
    e \in {"AuthenticationFailed", "InvalidConfiguration",
           "UnsupportedProtocol", "InvalidAddress"}

-----------------------------------------------------------------------------
(* health/mod.rs: backoff, retry limit and ReconnectionStrategy::reconnect *)

RECURSIVE Pow(_, _)
Pow(b, n) == IF n = 0 THEN 1 ELSE b * Pow(b, n - 1)

Min(a, b) == IF a <= b THEN a ELSE b

(* A delay that is not capped by max_backoff_ms. *)
BackoffDelayMs_uncapped(initial, multNum, multDen, maxMs, attempt) ==
    (initial * Pow(multNum, attempt)) \div Pow(multDen, attempt)

(* next_backoff_delay's arithmetic for the multiplier multNum / multDen:    *)
(* (initial as f64 * multiplier.powi(attempt)) as u64 truncates, then min   *)
BackoffDelayMs(initial, multNum, multDen, maxMs, attempt) ==
    Min((initial * Pow(multNum, attempt)) \div Pow(multDen, attempt), maxMs)

(* HealthMonitor::next_backoff_delay, in milliseconds *)
NextBackoffDelay(m, c) ==
    BackoffDelayMs(c.initial_backoff_ms, c.backoff_multiplier, 1,
                   c.max_backoff_ms, m.consecutive_failures)

(* A limit check that treats every limit as 0, the infinite one. *)
IsMaxRetriesReached_infinite(m, c) == FALSE

(* HealthMonitor::is_max_retries_reached *)
IsMaxRetriesReached(m, c) ==
    IF c.max_retry_attempts = 0
    THEN FALSE
    ELSE m.consecutive_failures >= c.max_retry_attempts

(* Duration::from_secs(10): the fixed wait while the breaker disallows *)
ProbeIntervalMs == 10000

Conns == {"conn1", "conn2"}

(* A driver that skips the breaker check. *)
IterationOutcome_ignoreBreaker(can, maxed) ==
    IF maxed THEN "gave_up" ELSE "connecting"

(* The two checks at the top of the loop body of reconnect *)
IterationOutcome(can, maxed) ==
    IF ~can THEN "probe_sleep"
    ELSE IF maxed THEN "gave_up"
    ELSE "connecting"

(* reconnect, Err arm: next_backoff_delay is read after record_failure     *)
BackoffAfterFailure(before, after, c) == NextBackoffDelay(after, c)

InitDriver ==
    /\ now = 0
    /\ cfg \in ConfigsDriver
    /\ mons = [c \in Conns |-> NewMonitor]
    /\ dpc = [c \in Conns |-> "loop"]
    /\ wakeAt = [c \in Conns |-> 0]
    /\ sleepDur = [c \in Conns |-> 0]
    /\ iterCan = [c \in Conns |-> FALSE]
    /\ iterMax = [c \in Conns |-> FALSE]
    /\ connects = [c \in Conns |-> 0]
    /\ fatalSeen = [c \in Conns |-> FALSE]
    /\ result = [c \in Conns |-> None]
    /\ hm = NewMonitor /\ prev = NewMonitor /\ lastOp = "new" /\ ret = FALSE
    /\ lastRec = None /\ onlyFailures = TRUE /\ halfOpened = FALSE
    /\ recCalls = 0
    /\ AggIdle
    /\ RouterIdle
    /\ AdapterIdle
    /\ FnIdle
    /\ ValidatorIdle
    /\ MoreIdle

(* reconnect, top of the loop: can_attempt_connection, then                *)
(* is_max_retries_reached, then record_connection_attempt and the call of  *)
(* connect_fn                                                              *)
DriverIterate(c) ==
    /\ dpc[c] = "loop"
    /\ LET can   == CanAttemptResult(mons[c], now, cfg)
           m1    == CanAttemptMonitor(mons[c], now, cfg)
           maxed == can /\ IsMaxRetriesReached(m1, cfg)
           out   == IterationOutcome(can, maxed)
       IN  /\ out = "connecting" => connects[c] < MaxConnects
           /\ iterCan' = [iterCan EXCEPT ![c] = can]
           /\ iterMax' = [iterMax EXCEPT ![c] = maxed]
           /\ dpc' = [dpc EXCEPT ![c] = out]
           /\ mons' = [mons EXCEPT ![c] =
                         IF out = "connecting"
                         THEN RecordConnectionAttempt(m1, now) ELSE m1]
           /\ connects' = [connects EXCEPT ![c] =
                             IF out = "connecting" THEN @ + 1 ELSE @]
           /\ sleepDur' = [sleepDur EXCEPT ![c] =
                             IF out = "probe_sleep" THEN ProbeIntervalMs ELSE @]
           /\ wakeAt' = [wakeAt EXCEPT ![c] =
                           IF out = "probe_sleep" THEN now + ProbeIntervalMs ELSE @]
           /\ result' = [result EXCEPT ![c] =
                           IF out = "gave_up" THEN "Err(ConnectionFailed)" ELSE @]
    /\ UNCHANGED <<now, cfg, fatalSeen, hmVars, aggVars, rtVars, adpVars, fnVars, dvVars, moreVars>>

(* reconnect: connect_fn returned Ok *)
DriverConnectOk(c) ==
    /\ dpc[c] = "connecting"
    /\ mons' = [mons EXCEPT ![c] = RecordSuccess(@, now)]
    /\ dpc' = [dpc EXCEPT ![c] = "done_ok"]
    /\ result' = [result EXCEPT ![c] = "Ok"]
    /\ UNCHANGED <<now, cfg, wakeAt, sleepDur, iterCan, iterMax, connects,
                   fatalSeen, hmVars, aggVars, rtVars, adpVars, fnVars, dvVars, moreVars>>

(* reconnect: connect_fn returned Err(e) *)
DriverConnectErr(c) ==
    /\ dpc[c] = "connecting"
    /\ \E fatal \in { IsFatal(e) : e \in ErrorKinds } :
        LET after   == RecordFailure(mons[c], now, cfg)
            backoff == BackoffAfterFailure(mons[c], after, cfg)
        IN  /\ mons' = [mons EXCEPT ![c] = after]
            /\ sleepDur' = [sleepDur EXCEPT ![c] = backoff]
            /\ wakeAt' = [wakeAt EXCEPT ![c] = now + backoff]
            /\ fatalSeen' = [fatalSeen EXCEPT ![c] = @ \/ fatal]
    /\ dpc' = [dpc EXCEPT ![c] = "backoff_sleep"]
    /\ UNCHANGED <<now, cfg, iterCan, iterMax, connects, result, hmVars, aggVars, rtVars, adpVars, fnVars, dvVars, moreVars>>

Sleeping(c) == dpc[c] \in {"probe_sleep", "backoff_sleep"}

(* tokio::time::sleep returns once its duration has passed *)
DriverWake(c) ==
    /\ Sleeping(c)
    /\ now >= wakeAt[c]
    /\ dpc' = [dpc EXCEPT ![c] = "loop"]
    /\ UNCHANGED <<now, cfg, mons, wakeAt, sleepDur, iterCan, iterMax, connects,
                   fatalSeen, result, hmVars, aggVars, rtVars, adpVars, fnVars, dvVars, moreVars>>

(* Time passes up to the end of the nearest pending sleep. *)
DriverAdvanceTime ==
    /\ \E c \in Conns : Sleeping(c) /\ wakeAt[c] > now
    /\ LET pending == { wakeAt[c] : c \in { d \in Conns : Sleeping(d) /\ wakeAt[d] > now } }
           next    == CHOOSE t \in pending : \A u \in pending : t <= u
       IN  /\ next <= MaxDriverClockMs
           /\ now' = next
    /\ UNCHANGED <<cfg, drvVars, hmVars, aggVars, rtVars, adpVars, fnVars, dvVars, moreVars>>

NextDriver ==
    \/ \E c \in Conns : DriverIterate(c)
    \/ \E c \in Conns : DriverConnectOk(c)
    \/ \E c \in Conns : DriverConnectErr(c)
    \/ \E c \in Conns : DriverWake(c)
    \/ DriverAdvanceTime

SpecDriver == InitDriver /\ [][NextDriver]_vars

-----------------------------------------------------------------------------
(* Claims about the health monitor, checked under SpecHM.                  *)

Threshold   == cfg.circuit_breaker_threshold
TimeoutMs   == cfg.circuit_breaker_timeout_secs * 1000

\* C1: starting from a fresh monitor, after N consecutive record_failure
\* calls and nothing else, the breaker is Closed if N < T and Open
\* otherwise, and status is CircuitOpen iff the breaker is Open.
C1_FailuresOpenBreaker ==
    onlyFailures =>
        /\ hm.circuit_breaker_state =
               (IF hm.total_failures < Threshold THEN "Closed" ELSE "Open")
        /\ (hm.status = "CircuitOpen") <=> (hm.circuit_breaker_state = "Open")

\* C2: a record_failure while the breaker is HalfOpen puts the monitor in
\* status CircuitOpen with breaker Open, stamps circuit_breaker_opened_at
\* again, and can_attempt_connection is false until the timeout passes anew.
C2_HalfOpenFailureReopens ==
    (lastOp = "record_failure" /\ prev.circuit_breaker_state = "HalfOpen") =>
        /\ hm.status = "CircuitOpen"
        /\ hm.circuit_breaker_state = "Open"
        /\ hm.circuit_breaker_opened_at = now
        /\ ~CanAttemptResult(hm, now, cfg)

\* C3 (as stated): in every reachable state, status = CircuitOpen implies
\* circuit_breaker_state = Open.
C3_CircuitOpenImpliesOpen ==
    hm.status = "CircuitOpen" => hm.circuit_breaker_state = "Open"

\* C3 (amended): in every reachable state, status = CircuitOpen implies
\* that the breaker is Open or HalfOpen (never Closed).
C3_CircuitOpenImpliesNotClosed ==
    hm.status = "CircuitOpen" => hm.circuit_breaker_state \in {"Open", "HalfOpen"}

\* C3 witness: the timeout moved the breaker to HalfOpen under CircuitOpen.
C3_Witness ==
    /\ hm.status = "CircuitOpen"
    /\ hm.circuit_breaker_state = "HalfOpen"
    /\ lastOp = "can_attempt_connection"

\* C4: with the breaker Open, can_attempt_connection returns false and
\* changes nothing while less than the circuit timeout has elapsed since
\* the circuit opened; a call at or after the timeout returns true, sets
\* the breaker HalfOpen and zeroes consecutive_failures; a record_success
\* that follows closes the breaker, sets status Connected and clears
\* circuit_breaker_opened_at.
C4_BreakerTimeoutAndRecovery ==
    /\ ( /\ lastOp = "can_attempt_connection"
         /\ prev.circuit_breaker_state = "Open"
         /\ now - prev.circuit_breaker_opened_at < TimeoutMs )
       => (ret = FALSE /\ hm = prev)
    /\ ( /\ lastOp = "can_attempt_connection"
         /\ prev.circuit_breaker_state = "Open"
         /\ now - prev.circuit_breaker_opened_at >= TimeoutMs )
       => ( /\ ret = TRUE
            /\ hm.circuit_breaker_state = "HalfOpen"
            /\ hm.consecutive_failures = 0 )
    /\ ( /\ lastOp = "record_success"
         /\ prev.circuit_breaker_state = "HalfOpen" )
       => ( /\ hm.circuit_breaker_state = "Closed"
            /\ hm.status = "Connected"
            /\ hm.circuit_breaker_opened_at = NoTime )

\* C4 witness: threshold failures opened the breaker, the timeout passed,
\* can_attempt_connection half-opened it and a record_success closed it.
C4_Witness ==
    /\ lastOp = "record_success"
    /\ prev.circuit_breaker_state = "HalfOpen"
    /\ prev.total_failures >= Threshold
    /\ hm.circuit_breaker_state = "Closed"

\* C5 (as stated): once a record_success or record_failure has been
\* recorded, consecutive_failures = 0 iff the most recent of them was
\* record_success.
C5_ZeroIffLastSuccess ==
    lastRec # None =>
        ((hm.consecutive_failures = 0) <=> (lastRec = "success"))

\* C5 (amended): once a record_success or record_failure has been recorded,
\* consecutive_failures = 0 iff the most recent of them was record_success
\* or can_attempt_connection has made the Open->HalfOpen transition since
\* the most recent record_failure.
C5_ZeroIffLastSuccessOrHalfOpened ==
    lastRec # None =>
        ((hm.consecutive_failures = 0) <=> (lastRec = "success" \/ halfOpened))

\* C5 witness: the counter is zero after a failure, reset by the transition.
C5_Witness ==
    /\ lastRec = "failure"
    /\ halfOpened
    /\ hm.consecutive_failures = 0
    /\ hm.total_failures > 0

-----------------------------------------------------------------------------
(* Claims about the reconnection driver, checked under SpecDriver.         *)

\* C6: in every iteration of reconnect, connect is called only if
\* can_attempt_connection returned true and is_max_retries_reached returned
\* false, and record_connection_attempt precedes the call; when the breaker
\* disallows, the driver sleeps the fixed 10 s and makes no attempt; a
\* successful connect is followed by record_success and Ok; a failed
\* connect is followed by record_failure and a sleep of next_backoff_delay
\* computed after that failure was recorded.
C6_DriverProtocol ==
    \A c \in Conns :
        /\ dpc[c] = "connecting" =>
              /\ iterCan[c] /\ ~iterMax[c]
              /\ mons[c].status = "Reconnecting"
              /\ mons[c].last_connection_attempt # NoTime
              /\ connects[c] = Recorded(mons[c]) + 1
        /\ dpc[c] = "probe_sleep" =>
              /\ ~iterCan[c]
              /\ sleepDur[c] = 10000
              /\ wakeAt[c] - now <= 10000
              /\ mons[c].status # "Reconnecting"
              /\ connects[c] = Recorded(mons[c])
        /\ dpc[c] = "done_ok" =>
              /\ result[c] = "Ok"
              /\ mons[c].status = "Connected"
              /\ mons[c].total_successes = 1
              /\ connects[c] = Recorded(mons[c])
        /\ dpc[c] = "backoff_sleep" =>
              /\ mons[c].status \in {"Disconnected", "CircuitOpen"}
              /\ mons[c].total_failures = connects[c]
              /\ sleepDur[c] = NextBackoffDelay(mons[c], cfg)

\* C6 witness: a driver whose failures opened the breaker slept the probe
\* interval, was let through again, connected and returned Ok.
C6_Witness ==
    \E c \in Conns :
        /\ dpc[c] = "done_ok"
        /\ sleepDur[c] = 10000
        /\ mons[c].total_failures >= cfg.circuit_breaker_threshold

\* C7: once a connect attempt of a connection has failed with a fatal error
\* kind, the reconnection driver of that connection makes no further
\* connect attempt.
C7_FatalErrorHaltsDriver ==
    \A c \in Conns : fatalSeen[c] => dpc[c] # "connecting"

-----------------------------------------------------------------------------
(* aggregator.rs: the Aggregator of one tenant.  Readings are numbered in  *)
(* the order of their add_reading calls.  The tasks that use it are the    *)
(* router's routing task (the one caller of add_reading), the ticker task  *)
(* spawned by start, and the caller of flush (stop_all_connections).       *)

Tasks == {"router", "ticker", "flusher"}

AggregationConfig(durationMs, maxSize) ==
    [ buffer_duration_ms |-> durationMs, max_buffer_size |-> maxSize ]

AggConfigs ==
    { AggregationConfig(d, n) : d \in FlushIntervalChoices, n \in 1..MaxBufferSize }

(* A size check that lets the buffer grow one past the limit. *)
NeedsSizeFlush_late(n, c) == n > c.max_buffer_size

(* add_reading: buffer_size >= self.config.max_buffer_size *)
NeedsSizeFlush(n, c) == n >= c.max_buffer_size

(* std::mem::take(&mut *buffer): the value it returns *)
TakeBatch(buf) == buf

(* An extraction that copies the buffer and leaves it in place. *)
TakeRest_clone(buf) == buf

(* std::mem::take(&mut *buffer): what it leaves in the buffer *)
TakeRest(buf) == <<>>

(* An extraction whose write guard lives on past the block. *)
LockAfterExtract_held(t) == t

(* flush_internal / ticker: the guard `buffer` / `buf` is a local of the   *)
(* block that computes `readings`; it is dropped at the block's end        *)
LockAfterExtract(t) == None

(* A failure path that puts the batch back in front of the buffer. *)
BufferAfterWrite_requeue(buf, batch, ok) == IF ok THEN buf ELSE batch \o buf

(* write_batch(tenant_id, readings) takes the batch by value; neither      *)
(* flush_internal (`?`) nor the ticker (error!) touches the buffer after   *)
(* the call returned                                                       *)
BufferAfterWrite(buf, batch, ok) == buf

(* add_reading returns (): `if let Err(e) = flush_internal(..)` only logs  *)
AddReadingReturn(flushOk) == "unit"

(* A ticker that flushes at every tick. *)
TickerDue_always(elapsed, c) == TRUE

(* ticker: elapsed >= flush_interval *)
TickerDue(elapsed, c) == elapsed >= c.buffer_duration_ms

NoTake == [before |-> <<>>, batch |-> <<>>, after |-> <<>>]

(* Aggregator::new followed by Aggregator::start *)
InitAgg ==
    /\ now = 0
    /\ aggCfg \in AggConfigs
    /\ buffer = <<>>
    /\ bufLock = None
    /\ last_flush = 0
    /\ apc = [t \in Tasks |-> IF t = "ticker" THEN "wait" ELSE "idle"]
    /\ readings = [t \in Tasks |-> <<>>]
    /\ nextTick = 0
    /\ nextId = 1
    /\ lastTake = NoTake
    /\ extracted = <<>>
    /\ writes = <<>>
    /\ writeResults = 0
    /\ lost = {}
    /\ addRet = None
    /\ cfg \in {ReconnectionConfig(1, 1, 0)}
    /\ hm = NewMonitor /\ prev = NewMonitor /\ lastOp = "new" /\ ret = FALSE
    /\ lastRec = None /\ onlyFailures = TRUE /\ halfOpened = FALSE
    /\ recCalls = 0
    /\ DriverIdle
    /\ RouterIdle
    /\ AdapterIdle
    /\ FnIdle
    /\ ValidatorIdle
    /\ MoreIdle

(* add_reading: self.buffer.write().await *)
RouterAddReading ==
    /\ apc["router"] = "idle"
    /\ nextId <= MaxReadings
    /\ bufLock = None
    /\ bufLock' = "router"
    /\ apc' = [apc EXCEPT !["router"] = "a_locked"]
    /\ UNCHANGED <<now, cfg, hmVars, drvVars, rtVars, adpVars, fnVars, dvVars, moreVars, aggCfg, buffer, last_flush,
                   readings, nextTick, nextId, lastTake, extracted, writes,
                   writeResults, lost, addRet>>

(* add_reading: push, size check, release of the lock; on reaching the    *)
(* limit the task goes on into flush_internal("size-based")                *)
RouterPush ==
    /\ apc["router"] = "a_locked"
    /\ bufLock = "router"
    /\ buffer' = Append(buffer, nextId)
    /\ nextId' = nextId + 1
    /\ bufLock' = None
    /\ apc' = [apc EXCEPT !["router"] =
                 IF NeedsSizeFlush(Len(buffer'), aggCfg) THEN "f_lock" ELSE "idle"]
    /\ addRet' = IF NeedsSizeFlush(Len(buffer'), aggCfg)
                 THEN None ELSE AddReadingReturn(TRUE)
    /\ UNCHANGED <<now, cfg, hmVars, drvVars, rtVars, adpVars, fnVars, dvVars, moreVars, aggCfg, last_flush, readings,
                   nextTick, lastTake, extracted, writes, writeResults, lost>>

(* Aggregator::flush: flush_internal("manual") *)
FlusherFlush ==
    /\ apc["flusher"] = "idle"
    /\ apc' = [apc EXCEPT !["flusher"] = "f_lock"]
    /\ UNCHANGED <<now, cfg, hmVars, drvVars, rtVars, adpVars, fnVars, dvVars, moreVars, aggCfg, buffer, bufLock,
                   last_flush, readings, nextTick, nextId, lastTake,
                   extracted, writes, writeResults, lost, addRet>>

(* flush_internal / ticker: buffer.write().await *)
Acquire(t) ==
    /\ \/ t \in {"router", "flusher"} /\ apc[t] = "f_lock"
       \/ t = "ticker" /\ apc[t] = "t_lock"
    /\ bufLock = None
    /\ bufLock' = t
    /\ apc' = [apc EXCEPT ![t] = IF t = "ticker" THEN "t_locked" ELSE "f_locked"]
    /\ UNCHANGED <<now, cfg, hmVars, drvVars, rtVars, adpVars, fnVars, dvVars, moreVars, aggCfg, buffer, last_flush,
                   readings, nextTick, nextId, lastTake, extracted, writes,
                   writeResults, lost, addRet>>

(* flush_internal / ticker: under the lock, return (continue) on an empty  *)
(* buffer, else take it; the lock is released at the end of the block      *)
Extract(t) ==
    /\ \/ t \in {"router", "flusher"} /\ apc[t] = "f_locked"
       \/ t = "ticker" /\ apc[t] = "t_locked"
    /\ bufLock = t
    /\ bufLock' = LockAfterExtract(t)
    /\ IF buffer = <<>>
       THEN /\ apc' = [apc EXCEPT ![t] = IF t = "ticker" THEN "wait" ELSE "idle"]
            /\ UNCHANGED <<buffer, readings, lastTake, extracted>>
       ELSE /\ readings' = [readings EXCEPT ![t] = TakeBatch(buffer)]
            /\ buffer' = TakeRest(buffer)
            /\ lastTake' = [before |-> buffer, batch |-> readings'[t],
                            after |-> buffer']
            /\ extracted' = Append(extracted, [by |-> t, batch |-> readings'[t]])
            /\ apc' = [apc EXCEPT ![t] = "call"]
    /\ addRet' = IF t = "router" /\ buffer = <<>>
                 THEN AddReadingReturn(TRUE) ELSE addRet
    /\ UNCHANGED <<now, cfg, hmVars, drvVars, rtVars, adpVars, fnVars, dvVars, moreVars, aggCfg, last_flush, nextTick,
                   nextId, writes, writeResults, lost>>

(* flush_internal / ticker: writer.write_batch(tenant_id, readings) is     *)
(* called; the ticker calls it only for a non-empty batch                  *)
CallWriter(t) ==
    /\ apc[t] = "call"
    /\ IF t = "ticker" /\ readings[t] = <<>>
       THEN /\ apc' = [apc EXCEPT ![t] = "wait"]
            /\ UNCHANGED writes
       ELSE /\ writes' = Append(writes, readings[t])
            /\ apc' = [apc EXCEPT ![t] = "writing"]
    /\ UNCHANGED <<now, cfg, hmVars, drvVars, rtVars, adpVars, fnVars, dvVars, moreVars, aggCfg, buffer, bufLock,
                   last_flush, readings, nextTick, nextId, lastTake,
                   extracted, writeResults, lost, addRet>>

(* flush_internal: write_batch returned; `?` returns the error, success    *)
(* stamps last_flush                                                       *)
FlushWriteReturn(t) ==
    /\ t \in {"router", "flusher"}
    /\ apc[t] = "writing"
    /\ \E ok \in BOOLEAN :
         /\ last_flush' = IF ok THEN now ELSE last_flush
         /\ lost' = IF ok THEN lost ELSE lost \cup {readings[t]}
         /\ buffer' = BufferAfterWrite(buffer, readings[t], ok)
         /\ addRet' = IF t = "router" THEN AddReadingReturn(ok) ELSE addRet
    /\ readings' = [readings EXCEPT ![t] = <<>>]
    /\ writeResults' = writeResults + 1
    /\ apc' = [apc EXCEPT ![t] = "idle"]
    /\ UNCHANGED <<now, cfg, hmVars, drvVars, rtVars, adpVars, fnVars, dvVars, moreVars, aggCfg, bufLock,
                   nextTick, nextId, lastTake, extracted, writes>>

(* ticker: interval.tick() completed; elapsed is read from last_flush      *)
TickerTick ==
    /\ apc["ticker"] = "wait"
    /\ now >= nextTick
    /\ nextTick' = nextTick + aggCfg.buffer_duration_ms
    /\ apc' = [apc EXCEPT !["ticker"] =
                 IF TickerDue(now - last_flush, aggCfg) THEN "t_lock" ELSE "wait"]
    /\ UNCHANGED <<now, cfg, hmVars, drvVars, rtVars, adpVars, fnVars, dvVars, moreVars, aggCfg, buffer, bufLock,
                   last_flush, readings, nextId, lastTake, extracted, writes,
                   writeResults, lost, addRet>>

(* ticker: write_batch returned; last_flush is stamped after the if/else   *)
TickerWriteReturn ==
    /\ apc["ticker"] = "writing"
    /\ \E ok \in BOOLEAN :
         /\ lost' = IF ok THEN lost ELSE lost \cup {readings["ticker"]}
         /\ buffer' = BufferAfterWrite(buffer, readings["ticker"], ok)
    /\ last_flush' = now
    /\ readings' = [readings EXCEPT !["ticker"] = <<>>]
    /\ writeResults' = writeResults + 1
    /\ apc' = [apc EXCEPT !["ticker"] = "wait"]
    /\ UNCHANGED <<now, cfg, hmVars, drvVars, rtVars, adpVars, fnVars, dvVars, moreVars, aggCfg, bufLock,
                   nextTick, nextId, lastTake, extracted, writes, addRet>>

(* Instant::now advances *)
AggAdvanceTime ==
    /\ now + AggTickMs <= MaxAggClockMs
    /\ now' = now + AggTickMs
    /\ UNCHANGED <<cfg, hmVars, drvVars, aggVars, rtVars, adpVars, fnVars, dvVars, moreVars>>

NextAgg ==
    \/ RouterAddReading
    \/ RouterPush
    \/ FlusherFlush
    \/ \E t \in Tasks : Acquire(t)
    \/ \E t \in Tasks : Extract(t)
    \/ \E t \in Tasks : CallWriter(t)
    \/ \E t \in Tasks : FlushWriteReturn(t)
    \/ TickerTick
    \/ TickerWriteReturn
    \/ AggAdvanceTime

SpecAgg == InitAgg /\ [][NextAgg]_vars

-----------------------------------------------------------------------------
(* Claims about the aggregator, checked under SpecAgg.                     *)

RECURSIVE Flatten(_)
Flatten(batches) ==
    IF batches = <<>> THEN <<>>
    ELSE Head(batches) \o Flatten(Tail(batches))

Range(f) == { f[i] : i \in DOMAIN f }

ExtractedBatches == [i \in DOMAIN extracted |-> extracted[i].batch]

C9_FlushExtractsWholeBufferOnce ==
    /\ lastTake.batch = lastTake.before
    /\ lastTake.after = <<>>
    /\ Flatten(ExtractedBatches) \o buffer = [i \in 1..(nextId - 1) |-> i]
    /\ Len(writes) + Cardinality({t \in Tasks : apc[t] = "call"}) = Len(extracted)
    /\ \A i \in DOMAIN writes : writes[i] \in Range(ExtractedBatches)
    /\ \A t \in Tasks : apc[t] \in {"call", "writing"} =>
            /\ readings[t] # <<>>
            /\ readings[t] \in Range(ExtractedBatches)
    /\ \A t \in Tasks : apc[t] = "writing" => readings[t] \in Range(writes)
    /\ \A i, j \in DOMAIN writes :
            i # j => Range(writes[i]) \cap Range(writes[j]) = {}
    /\ (extracted # <<>> /\ extracted[1].by = "router") =>
            extracted[1].batch = [i \in 1..aggCfg.max_buffer_size |-> i]

\* C9 witness: the size-triggered flush passed the first max_buffer_size
\* readings to the writer as one batch, a later flush passed the rest, and
\* the buffer is empty.
C9_Witness ==
    /\ Len(writes) >= 2
    /\ writes[1] = [i \in 1..aggCfg.max_buffer_size |-> i]
    /\ aggCfg.max_buffer_size > 1
    /\ extracted[1].by = "router"
    /\ buffer = <<>>
    /\ writeResults = Len(writes)

\* C10: at no instant are two flushes of the aggregator in progress at
\* once: at most one write_batch call is in flight.
C10_OneWriteInFlight ==
    Cardinality({t \in Tasks : apc[t] = "writing"}) <= 1

\* C11: the buffer's write lock is never held across writer I/O: no task
\* that is about to call write_batch or has a write_batch call in flight
\* (in add_reading's size flush, flush_internal or the ticker) holds the
\* lock; whoever holds it is at a push or at an extraction.
C11_LockNotHeldAcrossWrite ==
    /\ \A t \in Tasks : apc[t] \in {"call", "writing"} => bufLock # t
    /\ bufLock # None => apc[bufLock] \in {"a_locked", "f_locked", "t_locked"}

\* C11 witness: while a flush's write_batch is in flight, add_reading holds
\* the buffer lock.
C11_Witness ==
    /\ \E t \in Tasks : apc[t] = "writing"
    /\ apc["router"] = "a_locked"
    /\ bufLock = "router"

\* C13: when write_batch fails during a flush, the extracted batch is lost:
\* none of its readings is in the buffer afterwards and none is passed to
\* the writer in another call; add_reading returns () whatever its flush
\* returned; the task whose write failed goes on to its next add, flush or
\* tick.
C13_FailedBatchIsDropped ==
    /\ \A b \in lost :
          /\ Range(b) \cap Range(buffer) = {}
          /\ Cardinality({i \in DOMAIN writes : Range(writes[i]) \cap Range(b) # {}}) = 1
          /\ \A t \in Tasks : apc[t] = "call" => Range(readings[t]) \cap Range(b) = {}
    /\ addRet \in {None, "unit"}
    /\ (apc["router"] = "idle" /\ nextId > 1) => addRet = "unit"
    /\ Cardinality(lost) <= writeResults

\* C13 witness: the first write failed and its batch is lost; afterwards a
\* flush of later readings was written and returned, and a still later
\* reading sits in the buffer.
C13_Witness ==
    /\ Len(writes) >= 2
    /\ lost = {writes[1]}
    /\ writeResults = Len(writes)
    /\ addRet = "unit"
    /\ buffer # <<>>

(* What a step that moves the ticker task may do, by its position. *)
TickerStep ==
    LET pc  == apc["ticker"]
        pc2 == apc'["ticker"]
        due == now - last_flush >= aggCfg.buffer_duration_ms
        quiet == /\ buffer' = buffer /\ last_flush' = last_flush
                 /\ writes' = writes /\ readings' = readings
    IN  pc2 # pc =>
          /\ (pc = "wait" /\ due)  => (pc2 = "t_lock" /\ quiet)
          /\ (pc = "wait" /\ ~due) => FALSE
          /\ (pc = "t_locked" /\ buffer = <<>>) => (pc2 = "wait" /\ quiet)
          /\ (pc = "t_locked" /\ buffer # <<>>) =>
                /\ pc2 = "call"
                /\ readings'["ticker"] = buffer
                /\ buffer' = <<>>
                /\ writes' = writes /\ last_flush' = last_flush
          /\ pc = "call" =>
                /\ pc2 = "writing"
                /\ writes' = Append(writes, readings["ticker"])
                /\ buffer' = buffer /\ last_flush' = last_flush
          /\ pc = "writing" =>
                /\ pc2 = "wait"
                /\ last_flush' = now
                /\ buffer' = buffer /\ writes' = writes

\* C14: at each tick the ticker goes on to a time-based flush iff at least
\* flush_interval has elapsed on the flush clock at the tick; having taken
\* the buffer lock it extracts and then writes the whole buffer iff the
\* buffer is non-empty, and stamps the flush clock when the write returned;
\* a tick that is not due, or that finds the buffer empty, calls no writer
\* and changes neither the buffer nor the flush clock.
C14_TickerFlushIffDueAndNonEmpty ==
    [][ /\ TickerStep
        /\ (apc["ticker"] = "wait" /\ nextTick' # nextTick
              /\ ~(now - last_flush >= aggCfg.buffer_duration_ms))
            => /\ apc'["ticker"] = "wait"
               /\ buffer' = buffer /\ last_flush' = last_flush
               /\ writes' = writes ]_vars

\* C14 witness: a tick found the interval elapsed and the buffer non-empty
\* and its batch is at the writer; an earlier flush had stamped the clock.
C14_Witness ==
    /\ apc["ticker"] = "writing"
    /\ readings["ticker"] # <<>>
    /\ last_flush > 0
    /\ now - last_flush >= aggCfg.buffer_duration_ms

-----------------------------------------------------------------------------
(* tenant_router_v2.rs: the TenantRouter.  Its tasks are the poll loop     *)
(* spawned by start_polling_loop, the gRPC API calling add_connection and  *)
(* remove_connection, main calling stop_all_connections at shutdown, and   *)
(* the ticker of every aggregator.  A reading is a record of its number,   *)
(* its tenant id and its quality.                                          *)

RTasks == {"poll", "api", "stop"}

Tenants == {"tA", "tB"}

RConns == {"conn1", "conn2"}

(* ConnectionConfig.tenant_id of the configured connections *)
ConnTenant == [c \in RConns |-> IF c = "conn1" THEN "tA" ELSE "tB"]

ReadingQuality == {"Good", "Bad", "Uncertain"}

(* the qualities of the readings the modelled adapters emit *)
PolledQualities == {"Good", "Bad"}

MaxRouterReadings == 2      \* readings emitted by the adapters
MaxPollTicks == 3           \* iterations of the poll loop
MaxApiOps == 2              \* add_connection / remove_connection calls
PollIntervalMs == 5000      \* Duration::from_secs(5)
RouterMaxBufferSize == 2    \* config.aggregation.max_buffer_size

(* ValidationConfig::default *)
DefaultValidationConfig ==
    [ reject_bad_quality |-> TRUE, reject_uncertain_quality |-> FALSE,
      anomaly_std_dev_threshold |-> 3, anomaly_min_samples |-> 100 ]

(* DataValidator::validate_quality *)
ValidateQuality(reading, vc) ==
    CASE reading.quality = "Good" -> "Ok"
      [] reading.quality = "Bad" ->
            IF vc.reject_bad_quality THEN "Err" ELSE "Ok"
      [] reading.quality = "Uncertain" ->
            IF vc.reject_uncertain_quality THEN "Err" ELSE "Ok"

(* poll loop: TagReading built from a ProtocolReading; the fields kept by  *)
(* the model are copied, the quality through ReadingQuality::to_string     *)
ToTagReading(reading) ==
    [ id |-> reading.id, tenant_id |-> reading.tenant_id,
      quality |-> reading.quality ]

(* A router that hands every reading to the same aggregator. *)
RouteKey_fixed(reading) == "tA"

(* poll loop / readings router: let tenant_id = reading.tenant_id *)
RouteKey(reading) == reading.tenant_id

(* A removal that empties the map. *)
RemoveAdapter_all(map, id) == {}

(* remove_connection: adapters.remove(&connection_id) *)
RemoveAdapter(map, id) == map \ {id}

(* Aggregator::new(tenant_id, writer, config.aggregation) *)
NewAggregator(tenant) == [ tenant_id |-> tenant, buffer |-> <<>> ]

(* ensure_aggregator: insert under tenant_id if the entry is vacant *)
EnsureAggregator(aggs, tenant) ==
    IF tenant \in DOMAIN aggs THEN aggs
    ELSE [k \in DOMAIN aggs \cup {tenant} |->
            IF k = tenant THEN NewAggregator(tenant) ELSE aggs[k]]

(* tokio RwLock: a reader is admitted when no writer holds the lock, a     *)
(* writer when nobody holds it                                             *)
FreeLock == [ w |-> None, r |-> {} ]
CanRead(lock) == lock.w = None
CanWrite(lock) == lock.w = None /\ lock.r = {}
AddReader(lock, t) == [lock EXCEPT !.r = @ \cup {t}]
DropReader(lock, t) == [lock EXCEPT !.r = @ \ {t}]
Holds(lock, t) == lock.w = t \/ t \in lock.r

BufferedIds ==
    UNION { { aggregators[k].buffer[i].id : i \in DOMAIN aggregators[k].buffer }
            : k \in DOMAIN aggregators }

WrittenIds ==
    UNION { { w.batch[i].id : i \in DOMAIN w.batch } : w \in written }

(* the batches a poll can return: at most one new reading *)
PollBatches ==
    {<<>>} \cup
    (IF rNextId > MaxRouterReadings THEN {}
     ELSE { << [id |-> rNextId, tenant_id |-> t, quality |-> q] >> :
              t \in Tenants, q \in PolledQualities })

(* TenantRouter::new followed by start_all_connections that started the   *)
(* connections conns and the poll loop                                     *)
RouterStarted(conns) ==
    /\ now = 0
    /\ cfg \in {ReconnectionConfig(2, 300, 0)}
    /\ adapters = conns
    /\ aggregators = [t \in {ConnTenant[c] : c \in conns} |-> NewAggregator(t)]
    /\ adLock = FreeLock
    /\ agLock = FreeLock
    /\ rpc = [t \in RTasks |-> IF t = "poll" THEN "wait" ELSE "idle"]
    /\ pollTodo = {}
    /\ pollCur = None
    /\ pollQueue = <<>>
    /\ tickerBatch = [t \in Tenants |-> <<>>]
    /\ written = {}
    /\ rNextId = 1
    /\ pollTicks = 0
    /\ apiOps = 0
    /\ apiArg = None
    /\ apiResult = None
    /\ stopSnapshot = {}
    /\ stopAdapters = {}
    /\ stopFlushTodo = {}
    /\ disconnectCalls = {}
    /\ flushCalls = {}
    /\ stopFailed = FALSE
    /\ pollFailStreak = [c \in RConns |-> 0]
    /\ hm = NewMonitor /\ prev = NewMonitor /\ lastOp = "new" /\ ret = FALSE
    /\ lastRec = None /\ onlyFailures = TRUE /\ halfOpened = FALSE
    /\ recCalls = 0
    /\ DriverIdle
    /\ AggIdle
    /\ AdapterIdle
    /\ FnIdle
    /\ ValidatorIdle
    /\ MoreIdle

pollLocals == <<pollTodo, pollCur, pollQueue>>
apiLocals  == <<apiOps, apiArg, apiResult>>
stopLocals == <<stopSnapshot, stopAdapters, stopFlushTodo, disconnectCalls,
                flushCalls, stopFailed>>
notRouter  == <<cfg, hmVars, drvVars, aggVars, adpVars, fnVars, dvVars, moreVars>>

(* poll loop: interval.tick() completed and adapters.read().await granted  *)
PollTick ==
    /\ rpc["poll"] = "wait"
    /\ pollTicks < MaxPollTicks
    /\ CanRead(adLock)
    /\ adLock' = AddReader(adLock, "poll")
    /\ pollTodo' = adapters
    /\ pollTicks' = pollTicks + 1
    /\ now' = now + PollIntervalMs
    /\ rpc' = [rpc EXCEPT !["poll"] = "iter"]
    /\ UNCHANGED <<notRouter, adapters, aggregators, agLock, pollCur,
                   pollQueue, tickerBatch, written, rNextId, apiLocals,
                   stopLocals, pollFailStreak>>

(* poll loop: the next adapter of adapters_read.iter() is polled; at the   *)
(* end of the iteration the read guard is dropped                          *)
PollNext ==
    /\ rpc["poll"] = "iter"
    /\ IF pollTodo = {}
       THEN /\ adLock' = DropReader(adLock, "poll")
            /\ pollCur' = None
            /\ rpc' = [rpc EXCEPT !["poll"] = "wait"]
            /\ UNCHANGED pollTodo
       ELSE /\ \E c \in pollTodo :
                 /\ pollCur' = c
                 /\ pollTodo' = pollTodo \ {c}
            /\ rpc' = [rpc EXCEPT !["poll"] = "polling"]
            /\ UNCHANGED adLock
    /\ UNCHANGED <<now, notRouter, adapters, aggregators, agLock, pollQueue,
                   tickerBatch, written, rNextId, pollTicks, apiLocals,
                   stopLocals, pollFailStreak>>

(* poll loop: adapter.poll() returned; Err is only logged (debug!)         *)
PollReturn ==
    /\ rpc["poll"] = "polling"
    /\ \/ /\ pollFailStreak' = [pollFailStreak EXCEPT ![pollCur] = @ + 1]
          /\ rpc' = [rpc EXCEPT !["poll"] = "iter"]
          /\ UNCHANGED <<pollQueue, rNextId>>
       \/ \E batch \in PollBatches :
          /\ pollQueue' = batch
          /\ rNextId' = rNextId + Len(batch)
          /\ pollFailStreak' = [pollFailStreak EXCEPT ![pollCur] = 0]
          /\ rpc' = [rpc EXCEPT !["poll"] = "route"]
    /\ UNCHANGED <<now, notRouter, adapters, aggregators, adLock, agLock,
                   pollTodo, pollCur, tickerBatch, written, pollTicks,
                   apiLocals, stopLocals>>

(* poll loop: for the next reading, aggregators.read().await and the       *)
(* lookup of reading.tenant_id; without an aggregator the reading is       *)
(* dropped with an error log                                               *)
RouteNext ==
    /\ rpc["poll"] = "route"
    /\ IF pollQueue = <<>>
       THEN /\ rpc' = [rpc EXCEPT !["poll"] = "iter"]
            /\ UNCHANGED <<agLock, pollQueue>>
       ELSE /\ CanRead(agLock)
            /\ IF RouteKey(Head(pollQueue)) \in DOMAIN aggregators
               THEN /\ agLock' = AddReader(agLock, "poll")
                    /\ rpc' = [rpc EXCEPT !["poll"] = "adding"]
                    /\ UNCHANGED pollQueue
               ELSE /\ pollQueue' = Tail(pollQueue)
                    /\ UNCHANGED <<agLock, rpc>>
    /\ UNCHANGED <<now, notRouter, adapters, aggregators, adLock, pollTodo,
                   pollCur, tickerBatch, written, rNextId, pollTicks,
                   apiLocals, stopLocals, pollFailStreak>>

(* poll loop: aggregator.add_reading(tag_reading): the push, and on        *)
(* reaching max_buffer_size the extraction and write_batch call of         *)
(* flush_internal("size-based")                                            *)
RouteAdd ==
    /\ rpc["poll"] = "adding"
    /\ LET k   == RouteKey(Head(pollQueue))
           buf == Append(aggregators[k].buffer, ToTagReading(Head(pollQueue)))
       IN  IF Len(buf) >= RouterMaxBufferSize
           THEN /\ aggregators' = [aggregators EXCEPT ![k].buffer = <<>>]
                /\ written' = written \cup
                      {[tenant_id |-> aggregators[k].tenant_id, batch |-> buf]}
                /\ rpc' = [rpc EXCEPT !["poll"] = "add_writing"]
                /\ UNCHANGED <<agLock, pollQueue>>
           ELSE /\ aggregators' = [aggregators EXCEPT ![k].buffer = buf]
                /\ agLock' = DropReader(agLock, "poll")
                /\ pollQueue' = Tail(pollQueue)
                /\ rpc' = [rpc EXCEPT !["poll"] = "route"]
                /\ UNCHANGED written
    /\ UNCHANGED <<now, notRouter, adapters, adLock, pollTodo, pollCur,
                   tickerBatch, rNextId, pollTicks, apiLocals, stopLocals,
                   pollFailStreak>>

(* poll loop: the write_batch of the size-based flush returned; add_reading *)
(* returns and the aggregators read guard is dropped                       *)
RouteWriteReturn ==
    /\ rpc["poll"] = "add_writing"
    /\ agLock' = DropReader(agLock, "poll")
    /\ pollQueue' = Tail(pollQueue)
    /\ rpc' = [rpc EXCEPT !["poll"] = "route"]
    /\ UNCHANGED <<now, notRouter, adapters, aggregators, adLock, pollTodo,
                   pollCur, tickerBatch, written, rNextId, pollTicks,
                   apiLocals, stopLocals, pollFailStreak>>

(* Aggregator::start, ticker of tenant t: a due tick takes the non-empty   *)
(* buffer under the buffer lock                                            *)
RTickerExtract(t) ==
    /\ t \in DOMAIN aggregators
    /\ aggregators[t].buffer # <<>>
    /\ tickerBatch[t] = <<>>
    /\ tickerBatch' = [tickerBatch EXCEPT ![t] = aggregators[t].buffer]
    /\ aggregators' = [aggregators EXCEPT ![t].buffer = <<>>]
    /\ UNCHANGED <<now, notRouter, adapters, adLock, agLock, rpc, pollLocals,
                   written, rNextId, pollTicks, apiLocals, stopLocals,
                   pollFailStreak>>

(* ticker of tenant t: writer.write_batch(tenant_id, readings) *)
RTickerWrite(t) ==
    /\ tickerBatch[t] # <<>>
    /\ written' = written \cup
          {[tenant_id |-> aggregators[t].tenant_id, batch |-> tickerBatch[t]]}
    /\ tickerBatch' = [tickerBatch EXCEPT ![t] = <<>>]
    /\ UNCHANGED <<now, notRouter, adapters, aggregators, adLock, agLock, rpc,
                   pollLocals, rNextId, pollTicks, apiLocals, stopLocals,
                   pollFailStreak>>

(* add_connection -> start_connection: ensure_aggregator(tenant_id)       *)
(* under the aggregators write lock, then adapter.connect / subscribe      *)
ApiAdd(c) ==
    /\ rpc["api"] = "idle"
    /\ apiOps < MaxApiOps
    /\ CanWrite(agLock)
    /\ aggregators' = EnsureAggregator(aggregators, ConnTenant[c])
    /\ apiArg' = c
    /\ apiOps' = apiOps + 1
    /\ apiResult' = None
    /\ rpc' = [rpc EXCEPT !["api"] = "add_connecting"]
    /\ UNCHANGED <<now, notRouter, adapters, adLock, agLock, pollLocals,
                   tickerBatch, written, rNextId, pollTicks, stopLocals,
                   pollFailStreak>>

(* start_connection: connect and subscribe returned; an error of either    *)
(* is returned to the caller through `?`                                   *)
ApiAddConnectReturn ==
    /\ rpc["api"] = "add_connecting"
    /\ \E ok \in BOOLEAN :
         IF ok THEN /\ rpc' = [rpc EXCEPT !["api"] = "add_insert"]
                    /\ UNCHANGED <<apiArg, apiResult>>
               ELSE /\ rpc' = [rpc EXCEPT !["api"] = "idle"]
                    /\ apiResult' = "Err"
                    /\ apiArg' = None
    /\ UNCHANGED <<now, notRouter, adapters, aggregators, adLock, agLock,
                   pollLocals, tickerBatch, written, rNextId, pollTicks,
                   apiOps, stopLocals, pollFailStreak>>

(* start_connection: self.adapters.write().await.insert(connection_id, adapter) *)
ApiAddInsert ==
    /\ rpc["api"] = "add_insert"
    /\ CanWrite(adLock)
    /\ adapters' = adapters \cup {apiArg}
    /\ apiResult' = "Ok"
    /\ apiArg' = None
    /\ rpc' = [rpc EXCEPT !["api"] = "idle"]
    /\ UNCHANGED <<now, notRouter, aggregators, adLock, agLock, pollLocals,
                   tickerBatch, written, rNextId, pollTicks, apiOps,
                   stopLocals, pollFailStreak>>

(* remove_connection: adapters.write().await, adapters.remove(&id); for a  *)
(* present id adapter.disconnect() is called under the guard, for an       *)
(* absent one Ok(()) is returned                                           *)
ApiRemove(c) ==
    /\ rpc["api"] = "idle"
    /\ apiOps < MaxApiOps
    /\ CanWrite(adLock)
    /\ apiOps' = apiOps + 1
    /\ IF c \in adapters
       THEN /\ adapters' = RemoveAdapter(adapters, c)
            /\ adLock' = [adLock EXCEPT !.w = "api"]
            /\ apiArg' = c
            /\ apiResult' = None
            /\ rpc' = [rpc EXCEPT !["api"] = "rm_disconnecting"]
       ELSE /\ apiResult' = "Ok"
            /\ apiArg' = c
            /\ UNCHANGED <<adapters, adLock, rpc>>
    /\ UNCHANGED <<now, notRouter, aggregators, agLock, pollLocals,
                   tickerBatch, written, rNextId, pollTicks, stopLocals,
                   pollFailStreak>>

(* remove_connection: disconnect returned; its error is returned through   *)
(* `?`; the guard is dropped at the end of the function                    *)
ApiRemoveReturn ==
    /\ rpc["api"] = "rm_disconnecting"
    /\ \E ok \in BOOLEAN : apiResult' = IF ok THEN "Ok" ELSE "Err"
    /\ adLock' = [adLock EXCEPT !.w = None]
    /\ apiArg' = None
    /\ rpc' = [rpc EXCEPT !["api"] = "idle"]
    /\ UNCHANGED <<now, notRouter, adapters, aggregators, agLock, pollLocals,
                   tickerBatch, written, rNextId, pollTicks, apiOps,
                   stopLocals, pollFailStreak>>

(* main: tenant_router.stop_all_connections() is called *)
StopCall ==
    /\ rpc["stop"] = "idle"
    /\ stopSnapshot' = BufferedIds
    /\ rpc' = [rpc EXCEPT !["stop"] = "acquire"]
    /\ UNCHANGED <<now, notRouter, adapters, aggregators, adLock, agLock,
                   pollLocals, tickerBatch, written, rNextId, pollTicks,
                   apiLocals, stopAdapters, stopFlushTodo, disconnectCalls,
                   flushCalls, stopFailed, pollFailStreak>>

(* stop_all_connections: let mut adapters = self.adapters.write().await    *)
StopAcquire ==
    /\ rpc["stop"] = "acquire"
    /\ CanWrite(adLock)
    /\ adLock' = [adLock EXCEPT !.w = "stop"]
    /\ stopAdapters' = adapters
    /\ rpc' = [rpc EXCEPT !["stop"] = "draining"]
    /\ UNCHANGED <<now, notRouter, adapters, aggregators, agLock, pollLocals,
                   tickerBatch, written, rNextId, pollTicks, apiLocals,
                   stopSnapshot, stopFlushTodo, disconnectCalls, flushCalls,
                   stopFailed, pollFailStreak>>

(* stop_all_connections: the next (connection_id, adapter) of              *)
(* adapters.drain() and its adapter.disconnect() call; after the last,     *)
(* self.aggregators.read().await                                           *)
StopDisconnect ==
    /\ rpc["stop"] = "draining"
    /\ IF adapters # {}
       THEN /\ \E c \in adapters :
                 /\ adapters' = adapters \ {c}
                 /\ disconnectCalls' = disconnectCalls \cup {c}
            /\ rpc' = [rpc EXCEPT !["stop"] = "disc_io"]
            /\ UNCHANGED <<agLock, stopFlushTodo>>
       ELSE /\ CanRead(agLock)
            /\ agLock' = AddReader(agLock, "stop")
            /\ stopFlushTodo' = DOMAIN aggregators
            /\ rpc' = [rpc EXCEPT !["stop"] = "flushing"]
            /\ UNCHANGED <<adapters, disconnectCalls>>
    /\ UNCHANGED <<now, notRouter, aggregators, adLock, pollLocals,
                   tickerBatch, written, rNextId, pollTicks, apiLocals,
                   stopSnapshot, stopAdapters, flushCalls, stopFailed,
                   pollFailStreak>>

(* stop_all_connections: disconnect returned; an error is only logged      *)
StopDisconnectReturn ==
    /\ rpc["stop"] = "disc_io"
    /\ \E ok \in BOOLEAN : stopFailed' = (stopFailed \/ ~ok)
    /\ rpc' = [rpc EXCEPT !["stop"] = "draining"]
    /\ UNCHANGED <<now, notRouter, adapters, aggregators, adLock, agLock,
                   pollLocals, tickerBatch, written, rNextId, pollTicks,
                   apiLocals, stopSnapshot, stopAdapters, stopFlushTodo,
                   disconnectCalls, flushCalls, pollFailStreak>>

(* stop_all_connections: aggregator.flush() on the next aggregator: an     *)
(* empty buffer returns Ok at once, else the buffer is extracted and       *)
(* write_batch called; after the last, Ok(()) and both guards are dropped  *)
StopFlush ==
    /\ rpc["stop"] = "flushing"
    /\ IF stopFlushTodo # {}
       THEN \E t \in stopFlushTodo :
              /\ stopFlushTodo' = stopFlushTodo \ {t}
              /\ flushCalls' = flushCalls \cup {t}
              /\ IF aggregators[t].buffer = <<>>
                 THEN UNCHANGED <<aggregators, written, rpc>>
                 ELSE /\ aggregators' = [aggregators EXCEPT ![t].buffer = <<>>]
                      /\ written' = written \cup
                            {[tenant_id |-> aggregators[t].tenant_id,
                              batch |-> aggregators[t].buffer]}
                      /\ rpc' = [rpc EXCEPT !["stop"] = "flush_io"]
              /\ UNCHANGED <<adLock, agLock>>
       ELSE /\ adLock' = [adLock EXCEPT !.w = None]
            /\ agLock' = DropReader(agLock, "stop")
            /\ rpc' = [rpc EXCEPT !["stop"] = "stopped"]
            /\ UNCHANGED <<aggregators, written, stopFlushTodo, flushCalls>>
    /\ UNCHANGED <<now, notRouter, adapters, pollLocals, tickerBatch, rNextId,
                   pollTicks, apiLocals, stopSnapshot, stopAdapters,
                   disconnectCalls, stopFailed, pollFailStreak>>

(* stop_all_connections: the write_batch of a flush returned; an error is  *)
(* only logged                                                             *)
StopFlushReturn ==
    /\ rpc["stop"] = "flush_io"
    /\ \E ok \in BOOLEAN : stopFailed' = (stopFailed \/ ~ok)
    /\ rpc' = [rpc EXCEPT !["stop"] = "flushing"]
    /\ UNCHANGED <<now, notRouter, adapters, aggregators, adLock, agLock,
                   pollLocals, tickerBatch, written, rNextId, pollTicks,
                   apiLocals, stopSnapshot, stopAdapters, stopFlushTodo,
                   disconnectCalls, flushCalls, pollFailStreak>>

(* SpecRouter: the running service: one connection was configured at      *)
(* startup, the gRPC API adds and removes connections.                     *)
InitRouter == RouterStarted({"conn1"})

NextRouter ==
    \/ PollTick
    \/ PollNext
    \/ PollReturn
    \/ RouteNext
    \/ RouteAdd
    \/ RouteWriteReturn
    \/ \E t \in Tenants : RTickerExtract(t)
    \/ \E t \in Tenants : RTickerWrite(t)
    \/ \E c \in RConns : ApiAdd(c)
    \/ ApiAddConnectReturn
    \/ ApiAddInsert
    \/ \E c \in RConns : ApiRemove(c)
    \/ ApiRemoveReturn

SpecRouter == InitRouter /\ [][NextRouter]_vars

(* SpecStop: the service started with both configured connections and is   *)
(* shut down by main at some moment.                                       *)
InitStop == RouterStarted(RConns)

NextStop ==
    \/ PollTick
    \/ PollNext
    \/ PollReturn
    \/ RouteNext
    \/ RouteAdd
    \/ RouteWriteReturn
    \/ \E t \in Tenants : RTickerExtract(t)
    \/ \E t \in Tenants : RTickerWrite(t)
    \/ StopCall
    \/ StopAcquire
    \/ StopDisconnect
    \/ StopDisconnectReturn
    \/ StopFlush
    \/ StopFlushReturn

SpecStop == InitStop /\ [][NextStop]_vars

RouterTypeOK ==
    /\ adapters \subseteq RConns
    /\ DOMAIN aggregators \subseteq Tenants

-----------------------------------------------------------------------------
(* Claims about the router, checked under SpecRouter and SpecStop.         *)

(* task t is inside an adapter poll or disconnect, or inside a store write *)
IOInProgress(t) ==
    rpc[t] \in {"polling", "add_writing", "rm_disconnecting", "disc_io", "flush_io"}

\* C12: no router task holds the adapter-map lock or the aggregator-map
\* lock while an adapter poll or disconnect or an aggregator's store write
\* that it started is in progress.
C12_NoMapLockAcrossIO ==
    \A t \in RTasks :
        IOInProgress(t) => (~Holds(adLock, t) /\ ~Holds(agLock, t))

\* C15: every reading in an aggregator's buffer, in a ticker's extracted
\* batch and in every batch passed to write_batch(tenant_id, readings) has
\* the tenant id of that aggregator, which is the key it is stored under.
C15_BufferTenantMatches ==
    /\ \A k \in DOMAIN aggregators :
          /\ aggregators[k].tenant_id = k
          /\ \A i \in DOMAIN aggregators[k].buffer :
                aggregators[k].buffer[i].tenant_id = aggregators[k].tenant_id
    /\ \A t \in Tenants : \A i \in DOMAIN tickerBatch[t] :
          tickerBatch[t][i].tenant_id = t
    /\ \A w \in written : \A i \in DOMAIN w.batch :
          w.batch[i].tenant_id = w.tenant_id

\* C15 witness: the aggregators of two tenants each buffer a reading that
\* the poll loop routed to them.
C15_Witness ==
    /\ DOMAIN aggregators = Tenants
    /\ \A k \in Tenants : aggregators[k].buffer # <<>>

\* C16: every reading that is in an aggregator buffer or was written has
\* passed validate_reading: with reject_bad_quality on, none has quality
\* Bad.
C16_BufferedReadingsValidated ==
    /\ \A k \in DOMAIN aggregators : \A i \in DOMAIN aggregators[k].buffer :
          ValidateQuality(aggregators[k].buffer[i], DefaultValidationConfig) = "Ok"
    /\ \A w \in written : \A i \in DOMAIN w.batch :
          ValidateQuality(w.batch[i], DefaultValidationConfig) = "Ok"

\* C17: an adapter is not polled while circuit_breaker_threshold
\* consecutive polls of its connection have failed and the circuit timeout
\* since then has not passed.
C17_PollGatedByBreaker ==
    rpc["poll"] = "polling" =>
        ~ ( /\ pollFailStreak[pollCur] >= cfg.circuit_breaker_threshold
            /\ now < cfg.circuit_breaker_timeout_secs * 1000 )

\* C18: stop_all_connections calls disconnect on every adapter of the map
\* before it calls flush on any aggregator, whatever the disconnects and
\* flushes return; when it has returned the adapter map is empty, no
\* adapter is being polled, flush was called on every aggregator and every
\* reading that was buffered when it was called has been passed to the
\* writer.
C18_StopDrainsThenFlushes ==
    /\ rpc["stop"] \in {"draining", "disc_io"} => flushCalls = {}
    /\ flushCalls # {} => (adapters = {} /\ disconnectCalls = stopAdapters)
    /\ rpc["stop"] = "stopped" =>
          /\ adapters = {}
          /\ disconnectCalls = stopAdapters
          /\ flushCalls = DOMAIN aggregators
          /\ rpc["poll"] \notin {"polling", "route", "adding", "add_writing"}
          /\ stopSnapshot \subseteq WrittenIds

\* C19: a remove_connection(id) call removes exactly the adapter under id
\* from the adapter map and calls disconnect on it; for an id that is not
\* in the map it changes nothing and returns Ok; in both cases, and when
\* the disconnect returns, the aggregator map, every aggregator's buffer
\* and the other adapters are unchanged.
C19_RemoveConnectionFrame ==
    [][ /\ ( /\ rpc["api"] = "idle"
             /\ apiOps' = apiOps + 1
             /\ rpc'["api"] # "add_connecting" )
           => /\ aggregators' = aggregators
              /\ tickerBatch' = tickerBatch
              /\ written' = written
              /\ agLock' = agLock
              /\ IF apiArg' \in adapters
                 THEN /\ adapters' = adapters \ {apiArg'}
                      /\ rpc'["api"] = "rm_disconnecting"
                 ELSE /\ adapters' = adapters
                      /\ adLock' = adLock
                      /\ rpc' = rpc
                      /\ apiResult' = "Ok"
        /\ rpc["api"] = "rm_disconnecting"
           => /\ rpc'["api"] \in {"idle", "rm_disconnecting"}
              /\ adapters' = adapters
              /\ rpc'["api"] = "idle" => aggregators' = aggregators
      ]_vars

\* C19 witness: remove_connection removed one adapter and is disconnecting
\* it; the other adapter is still in the map and the removed connection's
\* tenant still has its aggregator with a buffered reading.
C19_Witness ==
    /\ rpc["api"] = "rm_disconnecting"
    /\ adapters # {}
    /\ apiArg \notin adapters
    /\ ConnTenant[apiArg] \in DOMAIN aggregators
    /\ aggregators[ConnTenant[apiArg]].buffer # <<>>

-----------------------------------------------------------------------------
(* adapters/*.rs: the seven ProtocolAdapter implementations.  An adapter   *)
(* is a record of the fields its type has: transport stands for the        *)
(* Option holding the client / context / socket / stream / channel,        *)
(* config and endpoint for `is_some()` of those Options, tags for          *)
(* tags.len(); a field a type does not have keeps its initial value.       *)

AdapterKinds ==
    {"OPC-UA", "Modbus-TCP", "Modbus-RTU", "MQTT", "DNP3", "HART-IP", "EtherNet/IP"}

MaxAdapterOps == 4          \* calls on the adapter
MaxTags == 2                \* length of the mapping list of a subscribe call

(* sample TagMapping.address strings *)
Addresses == {"40001", "AI:0", "PV", "bad addr!"}

(* the adapters whose subscribe validates addresses *)
GrammarKinds == {"Modbus-TCP", "Modbus-RTU", "DNP3", "HART-IP", "EtherNet/IP"}

(* parse_modbus_address / parse_dnp3_address / parse_hart_address /        *)
(* parse_ethernet_ip_address returns Ok on the sample address              *)
ParseAddressOk(kind, addr) ==
    CASE kind \in {"Modbus-TCP", "Modbus-RTU"} -> addr = "40001"
      [] kind = "DNP3" -> addr = "AI:0"
      [] kind = "HART-IP" -> addr = "PV"
      [] kind = "EtherNet/IP" -> addr # "bad addr!"
      [] OTHER -> TRUE

(* the mapping lists passed to subscribe *)
TagLists == UNION { [1..n -> Addresses] : n \in 0..MaxTags }

StubSessionHandle == 305419896      \* 0x12345678

(* XxxAdapter::new *)
NewAdapter(kind) ==
    [ kind |-> kind, transport |-> FALSE, config |-> FALSE, connected |-> FALSE,
      endpoint |-> FALSE, session_handle |-> 0, tags |-> <<>> ]

(* connect: its result; endpointOk says whether the client can be built   *)
(* (OPC-UA) or the endpoint URL parses (the others); Modbus RTU has no     *)
(* error return in this build                                              *)
ConnectResult(a, endpointOk) ==
    CASE a.kind = "Modbus-RTU" -> "Ok"
      [] endpointOk -> "Ok"
      [] a.kind = "OPC-UA" -> "ConnectionFailed"
      [] OTHER -> "InvalidConfiguration"

(* connect: the assignments of the Ok path; every error return precedes    *)
(* the first assignment                                                    *)
ConnectOk(a) ==
    CASE a.kind = "OPC-UA" ->
            [a EXCEPT !.transport = TRUE, !.config = TRUE, !.connected = TRUE]
      [] a.kind = "HART-IP" ->
            [a EXCEPT !.endpoint = TRUE, !.config = TRUE]
      [] a.kind = "EtherNet/IP" ->
            [a EXCEPT !.session_handle = StubSessionHandle, !.config = TRUE]
      [] OTHER -> [a EXCEPT !.config = TRUE]

Connect(a, endpointOk) ==
    IF ConnectResult(a, endpointOk) = "Ok" THEN ConnectOk(a) ELSE a

(* subscribe: its result: OPC-UA and MQTT check the connection, the        *)
(* others parse every address and map a parse error to                     *)
(* InvalidConfiguration                                                    *)
SubscribeResult(a, tags) ==
    CASE a.kind = "OPC-UA" -> IF ~a.connected THEN "NotConnected" ELSE "Ok"
      [] a.kind = "MQTT" -> IF ~a.config THEN "NotConnected" ELSE "Ok"
      [] OTHER ->
            IF \E i \in DOMAIN tags : ~ParseAddressOk(a.kind, tags[i])
            THEN "InvalidConfiguration" ELSE "Ok"

(* the longest prefix of tags whose addresses all parse *)
RECURSIVE ValidPrefix(_, _)
ValidPrefix(kind, tags) ==
    IF tags = <<>> \/ ~ParseAddressOk(kind, Head(tags)) THEN <<>>
    ELSE <<Head(tags)>> \o ValidPrefix(kind, Tail(tags))

(* A subscribe that stores each mapping as soon as it validated it. *)
Subscribe_partial(a, tags) == [a EXCEPT !.tags = ValidPrefix(a.kind, tags)]

(* subscribe: self.tags = tags after the validation loop *)
Subscribe(a, tags) ==
    IF SubscribeResult(a, tags) = "Ok" THEN [a EXCEPT !.tags = tags] ELSE a

(* A disconnect that drops the transport and keeps the configuration. *)
Disconnect_keepConfig(a) == [a EXCEPT !.transport = FALSE]

(* disconnect *)
Disconnect(a) ==
    CASE a.kind = "OPC-UA" ->
            IF ~a.connected THEN a
            ELSE [a EXCEPT !.transport = FALSE, !.config = FALSE,
                           !.connected = FALSE]
      [] a.kind = "Modbus-RTU" -> [a EXCEPT !.config = FALSE]
      [] a.kind = "HART-IP" ->
            [a EXCEPT !.transport = FALSE, !.endpoint = FALSE, !.config = FALSE]
      [] a.kind = "EtherNet/IP" ->
            [a EXCEPT !.transport = FALSE, !.session_handle = 0,
                      !.config = FALSE]
      [] OTHER -> [a EXCEPT !.transport = FALSE, !.config = FALSE]

(* is_connected *)
IsConnected(a) ==
    IF a.kind = "OPC-UA" THEN a.connected ELSE a.config

(* AdapterFactory::create_adapter *)
InitAdapter ==
    /\ now = 0
    /\ cfg \in {ReconnectionConfig(1, 1, 0)}
    /\ adp \in { NewAdapter(k) : k \in AdapterKinds }
    /\ adpPrev = adp
    /\ adpOp = <<"new", "new">>
    /\ adpRet = "Ok"
    /\ adpOps = 0
    /\ adpArg = <<>>
    /\ hm = NewMonitor /\ prev = NewMonitor /\ lastOp = "new" /\ ret = FALSE
    /\ lastRec = None /\ onlyFailures = TRUE /\ halfOpened = FALSE
    /\ recCalls = 0
    /\ DriverIdle
    /\ AggIdle
    /\ RouterIdle
    /\ FnIdle
    /\ ValidatorIdle
    /\ MoreIdle

AdpCall(op, after, res, arg) ==
    /\ adpOps < MaxAdapterOps
    /\ adpOps' = adpOps + 1
    /\ adpPrev' = adp
    /\ adp' = after
    /\ adpOp' = <<adpOp[2], op>>
    /\ adpRet' = res
    /\ adpArg' = arg
    /\ UNCHANGED <<now, cfg, hmVars, drvVars, aggVars, rtVars, fnVars, dvVars, moreVars>>

AdpConnect ==
    \E endpointOk \in BOOLEAN :
        AdpCall("connect", Connect(adp, endpointOk),
                ConnectResult(adp, endpointOk), <<>>)

AdpSubscribe ==
    \E tags \in TagLists :
        AdpCall("subscribe", Subscribe(adp, tags), SubscribeResult(adp, tags),
                tags)

AdpDisconnect ==
    AdpCall("disconnect", Disconnect(adp), "Ok", <<>>)

NextAdapter ==
    \/ AdpConnect
    \/ AdpSubscribe
    \/ AdpDisconnect

SpecAdapter == InitAdapter /\ [][NextAdapter]_vars

\* C20: for every adapter type and in every adapter state, disconnect
\* returns Ok and leaves is_connected() false; a disconnect that directly
\* follows a disconnect leaves the adapter as the first one left it.
C20_DisconnectIdempotent ==
    adpOp[2] = "disconnect" =>
        /\ adpRet = "Ok"
        /\ ~IsConnected(adp)
        /\ adpOp[1] = "disconnect" => adp = adpPrev

\* C20 witness: an adapter that was connected and subscribed has been
\* disconnected twice in a row.
C20_Witness ==
    /\ adpOp = <<"disconnect", "disconnect">>
    /\ adp.tags # <<>>
    /\ adpOps = 4


\* C21: for every adapter type, connect called on an adapter whose
\* is_connected() is true returns an error.
C21_ConnectWhenConnectedFails ==
    (adpOp[2] = "connect" /\ IsConnected(adpPrev)) => adpRet # "Ok"

\* C22: for every adapter type, subscribe called on an adapter that is not
\* connected (never connected, or disconnected since) fails with
\* NotConnected and stores no mappings.
C22_SubscribeNeedsConnection ==
    (adpOp[2] = "subscribe" /\ ~IsConnected(adpPrev)) =>
        (adpRet = "NotConnected" /\ adp.tags = adpPrev.tags)

\* C23: for every adapter with an address grammar, subscribe called with a
\* mapping whose address does not parse fails with error kind
\* InvalidAddress.
C23_BadAddressIsInvalidAddress ==
    ( /\ adpOp[2] = "subscribe"
      /\ adpPrev.kind \in GrammarKinds
      /\ \E i \in DOMAIN adpArg : ~ParseAddressOk(adpPrev.kind, adpArg[i]) )
    => adpRet = "InvalidAddress"

\* C24: for every adapter with an address grammar, subscribe succeeds if and
\* only if every address of the list parses; on success the stored list is
\* the argument, on failure the adapter (stored list and connection state)
\* is unchanged.
C24_SubscribeAllOrNothing ==
    (adpOp[2] = "subscribe" /\ adpPrev.kind \in GrammarKinds) =>
        /\ (adpRet = "Ok") <=>
               (\A i \in DOMAIN adpArg : ParseAddressOk(adpPrev.kind, adpArg[i]))
        /\ (adpRet = "Ok") => (adp.tags = adpArg /\
                               IsConnected(adp) = IsConnected(adpPrev))
        /\ (adpRet # "Ok") => adp = adpPrev

\* a connected grammar adapter holding mappings rejects a list whose first
\* address parses and whose second does not
C24_Witness ==
    /\ adpOp[2] = "subscribe"
    /\ adpPrev.kind \in GrammarKinds
    /\ IsConnected(adpPrev)
    /\ adpPrev.tags # <<>>
    /\ Len(adpArg) = 2
    /\ ParseAddressOk(adpPrev.kind, adpArg[1])
    /\ ~ParseAddressOk(adpPrev.kind, adpArg[2])
    /\ adpRet # "Ok"
    /\ adp.tags = adpPrev.tags

-----------------------------------------------------------------------------
(* SpecFn: the pure functions, each applied once to an argument drawn from *)
(* its domain.                                                             *)

MaxFailures == 5            \* consecutive_failures passed to the backoff

U8Max == 255                \* flags: u8

(* a & b on u8 *)
RECURSIVE BitAnd(_, _)
BitAnd(a, b) ==
    IF a = 0 \/ b = 0 THEN 0
    ELSE (a % 2) * (b % 2) + 2 * BitAnd(a \div 2, b \div 2)

ONLINE == 1                 \* 0b0000_0001
COMM_LOST == 16             \* 0b0001_0000
REMOTE_FORCED == 32         \* 0b0010_0000
LOCAL_FORCED == 64          \* 0b0100_0000

(* map_dnp3_quality *)
MapDnp3Quality(flags) ==
    IF BitAnd(flags, ONLINE) # 0
       /\ BitAnd(flags, COMM_LOST + REMOTE_FORCED + LOCAL_FORCED) = 0
    THEN "Good"
    ELSE IF BitAnd(flags, COMM_LOST) # 0 THEN "Bad"
    ELSE "Uncertain"

(* backoff_multiplier values, as <<numerator, denominator>>: 1.0, 1.5, 2.0 *)
Multipliers == { <<1, 1>>, <<3, 2>>, <<2, 1>> }

InitialBackoffChoices == {100, 1000}
MaxBackoffChoices == {1000, 60000}


(* ---- adapters/modbus_tcp.rs, modbus_rtu.rs: parse_modbus_address ---- *)

MaxAddrLen == 5             \* characters of an address string

(* the characters address strings are built from *)
AddrChars == {"0", "1", "2", "3", "4", "5", "9", "+", "x"}

Digits == <<"0", "1", "2", "3", "4", "5", "6", "7", "8", "9">>

IsDigit(c) == \E i \in 1..10 : Digits[i] = c
DigitValue(c) == (CHOOSE i \in 1..10 : Digits[i] = c) - 1

(* the first number above every register range *)
AboveRanges == 50000

(* the decimal value of a digit string, saturating at AboveRanges: a       *)
(* larger value, and one above u32::MAX that fails to parse, is rejected   *)
(* with the same InvalidAddress                                            *)
RECURSIVE DigitsValue(_, _)
DigitsValue(s, acc) ==
    IF s = <<>> THEN acc
    ELSE LET n == 10 * acc + DigitValue(Head(s))
         IN  DigitsValue(Tail(s), IF n > AboveRanges THEN AboveRanges ELSE n)

(* str::parse::<u32>: an optional '+', then one or more decimal digits;    *)
(* -1 stands for Err                                                       *)
ParseU32(s) ==
    LET d == IF s # <<>> /\ Head(s) = "+" THEN Tail(s) ELSE s
    IN  IF d = <<>> \/ \E i \in DOMAIN d : ~IsDigit(d[i]) THEN -1
        ELSE DigitsValue(d, 0)

(* (addr - base) as u16 *)
AsU16(n) == n % 65536

(* the match of parse_modbus_address on the parsed number *)
RegisterOf(addr) ==
    CASE addr >= 1 /\ addr <= 9999 ->
            [ret |-> "Ok", register_type |-> "Coil", index |-> AsU16(addr - 1)]
      [] addr >= 10001 /\ addr <= 19999 ->
            [ret |-> "Ok", register_type |-> "DiscreteInput",
             index |-> AsU16(addr - 10001)]
      [] addr >= 30001 /\ addr <= 39999 ->
            [ret |-> "Ok", register_type |-> "InputRegister",
             index |-> AsU16(addr - 30001)]
      [] addr >= 40001 /\ addr <= 49999 ->
            [ret |-> "Ok", register_type |-> "HoldingRegister",
             index |-> AsU16(addr - 40001)]
      [] OTHER -> [ret |-> "InvalidAddress"]

(* A parser that keeps the 1-based register number. *)
ParseModbusAddress_oneBased(address) ==
    LET addr == ParseU32(address)
        r == RegisterOf(addr)
    IN  IF addr = -1 THEN [ret |-> "InvalidAddress"]
        ELSE IF r.ret = "Ok" THEN [r EXCEPT !.index = @ + 1] ELSE r

(* ModbusTcpAdapter::parse_modbus_address *)
ParseModbusAddress(address) ==
    LET addr == ParseU32(address)
    IN  IF addr = -1 THEN [ret |-> "InvalidAddress"] ELSE RegisterOf(addr)

(* ModbusRtuAdapter::parse_modbus_address *)
ParseModbusAddressRtu(address) ==
    LET addr == ParseU32(address)
    IN  IF addr = -1 THEN [ret |-> "InvalidAddress"]
        ELSE CASE addr \in 1..9999 ->
                    [ret |-> "Ok", register_type |-> "Coil",
                     index |-> AsU16(addr - 1)]
               [] addr \in 10001..19999 ->
                    [ret |-> "Ok", register_type |-> "DiscreteInput",
                     index |-> AsU16(addr - 10001)]
               [] addr \in 30001..39999 ->
                    [ret |-> "Ok", register_type |-> "InputRegister",
                     index |-> AsU16(addr - 30001)]
               [] addr \in 40001..49999 ->
                    [ret |-> "Ok", register_type |-> "HoldingRegister",
                     index |-> AsU16(addr - 40001)]
               [] OTHER -> [ret |-> "InvalidAddress"]

(* a call of parse_modbus_address on a string of at most MaxAddrLen chars *)
IsParseCall(c) ==
    \E k \in {"Modbus-TCP", "Modbus-RTU"}, n \in 0..MaxAddrLen :
        \E a \in [1..n -> AddrChars] :
            c = [fn |-> "parse_modbus_address", adapter |-> k, address |-> a]

(* ---- adapters/factory.rs: AdapterFactory::create_adapter ---- *)

LowerCase == <<"a", "b", "c", "d", "e", "f", "g", "h", "i", "j", "k", "l", "m",
               "n", "o", "p", "q", "r", "s", "t", "u", "v", "w", "x", "y", "z">>
UpperCase == <<"A", "B", "C", "D", "E", "F", "G", "H", "I", "J", "K", "L", "M",
               "N", "O", "P", "Q", "R", "S", "T", "U", "V", "W", "X", "Y", "Z">>

(* char::to_uppercase on ASCII *)
UpperChar(c) ==
    IF \E i \in 1..26 : LowerCase[i] = c
    THEN UpperCase[CHOOSE i \in 1..26 : LowerCase[i] = c]
    ELSE c

(* str::to_uppercase *)
ToUppercase(s) == [i \in DOMAIN s |-> UpperChar(s[i])]

(* AdapterFactory::create_adapter: the match on protocol.to_uppercase() *)
CreateAdapter(protocol) ==
    LET u == ToUppercase(protocol)
    IN  CASE u \in { <<"O", "P", "C", "-", "U", "A">>,
                   <<"O", "P", "C", "U", "A">>,
                   <<"O", "P", "C", "_", "U", "A">> } ->
                [ret |-> "Ok", adapter |-> NewAdapter("OPC-UA")]
          [] u \in { <<"M", "O", "D", "B", "U", "S", "-", "T", "C", "P">>,
                   <<"M", "O", "D", "B", "U", "S", "_", "T", "C", "P">>,
                   <<"M", "O", "D", "B", "U", "S", "T", "C", "P">> } ->
                [ret |-> "Ok", adapter |-> NewAdapter("Modbus-TCP")]
          [] u \in { <<"M", "O", "D", "B", "U", "S", "-", "R", "T", "U">>,
                   <<"M", "O", "D", "B", "U", "S", "_", "R", "T", "U">>,
                   <<"M", "O", "D", "B", "U", "S", "R", "T", "U">> } ->
                [ret |-> "Ok", adapter |-> NewAdapter("Modbus-RTU")]
          [] u \in { <<"M", "Q", "T", "T">> } ->
                [ret |-> "Ok", adapter |-> NewAdapter("MQTT")]
          [] u \in { <<"D", "N", "P", "3">> } ->
                [ret |-> "Ok", adapter |-> NewAdapter("DNP3")]
          [] u \in { <<"H", "A", "R", "T", "-", "I", "P">>,
                   <<"H", "A", "R", "T", "_", "I", "P">>,
                   <<"H", "A", "R", "T", "I", "P">> } ->
                [ret |-> "Ok", adapter |-> NewAdapter("HART-IP")]
          [] u \in { <<"E", "T", "H", "E", "R", "N", "E", "T", "-", "I", "P">>,
                   <<"E", "T", "H", "E", "R", "N", "E", "T", "_", "I", "P">>,
                   <<"E", "T", "H", "E", "R", "N", "E", "T", "I", "P">>,
                   <<"E", "I", "P">> } ->
                [ret |-> "Ok", adapter |-> NewAdapter("EtherNet/IP")]
          [] OTHER -> [ret |-> "UnsupportedProtocol"]

(* protocol tags passed to the factory *)
ProtocolTags ==
    { <<"O", "P", "C", "-", "U", "A">>,
      <<"o", "p", "c", "-", "u", "a">>,
      <<"O", "P", "C", "U", "A">>,
      <<"O", "p", "c", "_", "U", "a">>,
      <<"m", "q", "t", "t">>,
      <<"M", "Q", "T", "T">>,
      <<"M", "-", "Q", "T", "T">>,
      <<"D", "N", "P", "3">>,
      <<"d", "n", "p", "-", "3">>,
      <<"M", "o", "d", "b", "u", "s", "-", "T", "C", "P">>,
      <<"m", "o", "d", "b", "u", "s", "_", "r", "t", "u">>,
      <<"H", "A", "R", "T", "I", "P">>,
      <<"h", "a", "r", "t", "-", "i", "p">>,
      <<"E", "I", "P">>,
      <<"E", "t", "h", "e", "r", "N", "e", "t", "/", "I", "P">>,
      <<"E", "T", "H", "E", "R", "N", "E", "T", "_", "I", "P">>,
      <<"U", "N", "K", "N", "O", "W", "N">>,
      <<>> }

FnCalls ==
    { [fn |-> "map_dnp3_quality", flags |-> f] : f \in 0..U8Max }
    \cup { [fn |-> "is_retryable / is_fatal", kind |-> k] : k \in ErrorKinds }
    \cup { [fn |-> "next_backoff_delay", initial |-> i, mult |-> m,
            max |-> x, failures |-> n] :
           i \in InitialBackoffChoices, m \in Multipliers,
           x \in MaxBackoffChoices, n \in 0..MaxFailures }
    \cup { [fn |-> "create_adapter", protocol |-> t] : t \in ProtocolTags }

InitFn ==
    /\ now = 0
    /\ cfg \in {ReconnectionConfig(1, 1, 0)}
    /\ (call \in FnCalls \/ IsParseCall(call))
    /\ fnRet = <<>>
    /\ hm = NewMonitor /\ prev = NewMonitor /\ lastOp = "new" /\ ret = FALSE
    /\ lastRec = None /\ onlyFailures = TRUE /\ halfOpened = FALSE
    /\ recCalls = 0
    /\ DriverIdle
    /\ AggIdle
    /\ RouterIdle
    /\ AdapterIdle
    /\ ValidatorIdle
    /\ MoreIdle

FnReturn(fn, value) ==
    /\ call.fn = fn
    /\ fnRet = <<>>
    /\ fnRet' = <<value>>
    /\ UNCHANGED <<now, cfg, call, hmVars, drvVars, aggVars, rtVars, adpVars, dvVars, moreVars>>

FnMapDnp3Quality ==
    FnReturn("map_dnp3_quality", MapDnp3Quality(call.flags))

FnClassify ==
    FnReturn("is_retryable / is_fatal",
             [retryable |-> IsRetryable(call.kind), fatal |-> IsFatal(call.kind)])

FnNextBackoffDelay ==
    FnReturn("next_backoff_delay",
             BackoffDelayMs(call.initial, call.mult[1], call.mult[2], call.max,
                            call.failures))

FnParseModbusAddress ==
    FnReturn("parse_modbus_address",
             IF call.adapter = "Modbus-TCP"
             THEN ParseModbusAddress(call.address)
             ELSE ParseModbusAddressRtu(call.address))

FnCreateAdapter ==
    FnReturn("create_adapter", CreateAdapter(call.protocol))

NextFn ==
    \/ FnMapDnp3Quality
    \/ FnClassify
    \/ FnNextBackoffDelay
    \/ FnParseModbusAddress
    \/ FnCreateAdapter

SpecFn == InitFn /\ [][NextFn]_vars

Returned(fn) == call.fn = fn /\ fnRet # <<>>

\* C25: map_dnp3_quality maps 0b0000_0001 to Good, 0b0001_0000 to Bad,
\* 0b0010_0001 and 0b0100_0001 to Uncertain, and 0b0000_0000 to Bad.
C25_Dnp3QualityTable ==
    Returned("map_dnp3_quality") =>
        /\ call.flags = 1 => fnRet[1] = "Good"
        /\ call.flags = 16 => fnRet[1] = "Bad"
        /\ call.flags \in {33, 65} => fnRet[1] = "Uncertain"
        /\ call.flags = 0 => fnRet[1] = "Bad"

\* C26: is_retryable is true exactly for ConnectionFailed, NotConnected,
\* Timeout, Io, ReadFailed, SubscriptionFailed and ProtocolSpecific;
\* is_fatal is true exactly for AuthenticationFailed, InvalidConfiguration,
\* UnsupportedProtocol and InvalidAddress; every kind is exactly one of the
\* two.
C26_ErrorClassification ==
    Returned("is_retryable / is_fatal") =>
        /\ fnRet[1].retryable =
               (call.kind \in {"ConnectionFailed", "NotConnected", "Timeout",
                               "IoError", "ReadFailed", "SubscriptionFailed",
                               "ProtocolSpecific"})
        /\ fnRet[1].fatal =
               (call.kind \in {"AuthenticationFailed", "InvalidConfiguration",
                               "UnsupportedProtocol", "InvalidAddress"})
        /\ fnRet[1].retryable # fnRet[1].fatal

C28_TotalsCountRecordCalls ==
    /\ hm.total_successes + hm.total_failures = recCalls
    /\ lastOp \in {"record_connection_attempt", "can_attempt_connection"} =>
           /\ hm.total_successes = prev.total_successes
           /\ hm.total_failures = prev.total_failures

\* can_attempt_connection has just moved the breaker from Open to HalfOpen
\* after successes and failures were recorded
C28_Witness ==
    /\ lastOp = "can_attempt_connection"
    /\ prev.circuit_breaker_state = "Open"
    /\ hm.circuit_breaker_state = "HalfOpen"
    /\ hm.total_successes > 0
    /\ hm.total_failures > 1
    /\ hm.total_successes + hm.total_failures = recCalls

-----------------------------------------------------------------------------
(* security/data_validator.rs: one DataValidator.  Values are f64 in the   *)
(* code; the model uses integral values, for which count, sum, sum_squared *)
(* and the comparisons below are exact.                                    *)

MaxValidatorOps == 4        \* validate_reading calls of SpecValidator
MaxProbes == 3              \* probe readings of SpecS8

SamplesFed == 50            \* samples fed before the anomaly probes

(* DataValidator::default_tag_rules *)
DefaultTagRules ==
    [ oil_rate        |-> [min_value |-> 0, max_value |-> 10000],
      gas_rate        |-> [min_value |-> 0, max_value |-> 50000],
      water_rate      |-> [min_value |-> 0, max_value |-> 20000],
      tubing_pressure |-> [min_value |-> 0, max_value |-> 5000],
      casing_pressure |-> [min_value |-> 0, max_value |-> 5000],
      temperature     |-> [min_value |-> -40, max_value |-> 300],
      flow_rate       |-> [min_value |-> 0, max_value |-> 500] ]

(* StatisticalTracker::new *)
NewTracker == [count |-> 0, sum |-> 0, sum_squared |-> 0]

(* StatisticalTracker::add_sample *)
AddSample(tr, value) ==
    [ count |-> tr.count + 1, sum |-> tr.sum + value,
      sum_squared |-> tr.sum_squared + value * value ]

(* count^2 * variance: variance = sum_squared / count - mean * mean,       *)
(* .max(0.0)                                                               *)
ScaledVariance(tr) ==
    LET v == tr.count * tr.sum_squared - tr.sum * tr.sum
    IN  IF v < 0 THEN 0 ELSE v

(* StatisticalTracker::std_dev() == 0.0 *)
StdDevIsZero(tr) == tr.count < 2 \/ ScaledVariance(tr) = 0

(* StatisticalTracker::is_anomaly: |value - mean| / std_dev > threshold,   *)
(* both sides multiplied by count * std_dev and squared (threshold > 0)    *)
IsAnomaly(tr, value, threshold, min_samples) ==
    IF tr.count < min_samples THEN FALSE
    ELSE IF StdDevIsZero(tr) THEN FALSE
    ELSE LET d == tr.count * value - tr.sum
         IN  d * d > threshold * threshold * ScaledVariance(tr)

(* DataValidator::validate_range *)
ValidateRange(reading, rules) ==
    IF reading.tag_name \in DOMAIN rules
    THEN LET rule == rules[reading.tag_name]
         IN  IF reading.value < rule.min_value THEN "Err"
             ELSE IF reading.value > rule.max_value THEN "Err"
             ELSE "Ok"
    ELSE "Ok"

(* stats.entry(tag_name).or_insert_with(StatisticalTracker::new) *)
EntryOrInsert(stats, tag) ==
    IF tag \in DOMAIN stats THEN stats
    ELSE [t \in DOMAIN stats \cup {tag} |->
             IF t = tag THEN NewTracker ELSE stats[t]]

(* A validate_anomaly that adds the sample before it checks it. *)
ValidateAnomaly_addFirst(stats, reading, vc) ==
    IF vc.anomaly_std_dev_threshold <= 0 THEN [ret |-> "Ok", stats |-> stats]
    ELSE LET st == EntryOrInsert(stats, reading.tag_name)
             tr == st[reading.tag_name]
             added == [st EXCEPT ![reading.tag_name] = AddSample(tr, reading.value)]
         IN  IF IsAnomaly(tr, reading.value, vc.anomaly_std_dev_threshold,
                          vc.anomaly_min_samples)
             THEN [ret |-> "Err", stats |-> added]
             ELSE [ret |-> "Ok", stats |-> added]

(* DataValidator::validate_anomaly: its result and the statistics map *)
ValidateAnomaly(stats, reading, vc) ==
    IF vc.anomaly_std_dev_threshold <= 0 THEN [ret |-> "Ok", stats |-> stats]
    ELSE LET st == EntryOrInsert(stats, reading.tag_name)
             tr == st[reading.tag_name]
         IN  IF IsAnomaly(tr, reading.value, vc.anomaly_std_dev_threshold,
                          vc.anomaly_min_samples)
             THEN [ret |-> "Err", stats |-> st]
             ELSE [ret |-> "Ok",
                   stats |-> [st EXCEPT ![reading.tag_name] =
                                            AddSample(tr, reading.value)]]

(* DataValidator::validate_reading: "Ok" or the filter that returned Err,  *)
(* and the statistics map                                                  *)
ValidateReading(stats, reading, vc) ==
    IF ValidateQuality(reading, vc) # "Ok"
    THEN [ret |-> "quality", stats |-> stats]
    ELSE IF ValidateRange(reading, DefaultTagRules) # "Ok"
    THEN [ret |-> "range", stats |-> stats]
    ELSE LET a == ValidateAnomaly(stats, reading, vc)
         IN  [ret |-> IF a.ret = "Ok" THEN "Ok" ELSE "anomaly", stats |-> a.stats]

(* get_tag_statistics(tag).count, 0 for a tag without entry *)
CountOf(stats, tag) == IF tag \in DOMAIN stats THEN stats[tag].count ELSE 0

ValidatorConfigs ==
    { DefaultValidationConfig,
      [DefaultValidationConfig EXCEPT !.anomaly_min_samples = 2],
      [DefaultValidationConfig EXCEPT !.anomaly_std_dev_threshold = 0,
                                      !.anomaly_min_samples = 2] }

ValidatorTags == {"oil_rate", "test_tag"}
ValidatorValues == {-10, 100, 110, 1000}
ValidatorQualities == {"Good", "Bad"}

ValidatorStarted(configs) ==
    /\ now = 0
    /\ cfg \in {ReconnectionConfig(1, 1, 0)}
    /\ dvCfg \in configs
    /\ statistics = <<>>
    /\ dvPrev = <<>>
    /\ dvReading = NoReading
    /\ dvRet = None
    /\ dvOps = 0
    /\ fed = 0
    /\ hm = NewMonitor /\ prev = NewMonitor /\ lastOp = "new" /\ ret = FALSE
    /\ lastRec = None /\ onlyFailures = TRUE /\ halfOpened = FALSE
    /\ recCalls = 0
    /\ DriverIdle
    /\ AggIdle
    /\ RouterIdle
    /\ AdapterIdle
    /\ FnIdle
    /\ MoreIdle

(* DataValidator::new(config) *)
InitValidator == ValidatorStarted(ValidatorConfigs)

(* one validate_reading call *)
DVCall(reading) ==
    LET r == ValidateReading(statistics, reading, dvCfg)
    IN  /\ statistics' = r.stats
        /\ dvPrev' = statistics
        /\ dvReading' = reading
        /\ dvRet' = r.ret
        /\ dvOps' = dvOps + 1
        /\ UNCHANGED <<now, cfg, dvCfg, hmVars, drvVars, aggVars, rtVars,
                       adpVars, fnVars, moreVars>>

DVValidateReading ==
    /\ dvOps < MaxValidatorOps
    /\ \E t \in ValidatorTags, v \in ValidatorValues, q \in ValidatorQualities :
          DVCall([tag_name |-> t, value |-> v, quality |-> q])
    /\ UNCHANGED fed

NextValidator == DVValidateReading

SpecValidator == InitValidator /\ [][NextValidator]_vars

\* C29: a reading rejected by the quality, range or anomaly filter leaves
\* the tag's count, sum and sum-of-squares unchanged; every accepted
\* reading increases the count of its tag by exactly one; with
\* threshold <= 0 no statistics are recorded.
C29_TrackerOnlySeesAccepted ==
    dvOps > 0 =>
        /\ dvRet # "Ok" => statistics = dvPrev
        /\ (dvRet = "Ok" /\ dvCfg.anomaly_std_dev_threshold > 0) =>
               /\ CountOf(statistics, dvReading.tag_name)
                      = CountOf(dvPrev, dvReading.tag_name) + 1
               /\ \A t \in DOMAIN dvPrev :
                      t # dvReading.tag_name => statistics[t] = dvPrev[t]
        /\ dvCfg.anomaly_std_dev_threshold <= 0 => statistics = <<>>

\* a reading is rejected as an anomaly by a tracker that holds samples
C29_Witness ==
    /\ dvRet = "anomaly"
    /\ dvReading.tag_name \in DOMAIN dvPrev
    /\ dvPrev[dvReading.tag_name].count >= 2
    /\ statistics = dvPrev

-----------------------------------------------------------------------------
(* SpecS8: a validator with the default configuration and rules is fed     *)
(* oil_rate samples around 100 and is probed with single readings.         *)

Jitters == {0, 10}
ProbeValues == {500, -10, 1000, 105}

OilRate(value) == [tag_name |-> "oil_rate", value |-> value, quality |-> "Good"]

(* DataValidator::new(ValidationConfig::default()) *)
InitS8 == ValidatorStarted({DefaultValidationConfig})

(* one sample of the feed loop *)
S8Feed ==
    /\ fed < SamplesFed
    /\ fed' = fed + 1
    /\ \E j \in Jitters : DVCall(OilRate(100 + j))

(* one probe reading *)
S8Probe ==
    /\ dvOps - fed < MaxProbes
    /\ UNCHANGED fed
    /\ \E v \in ProbeValues : DVCall(OilRate(v))

NextS8 ==
    \/ S8Feed
    \/ S8Probe

SpecS8 == InitS8 /\ [][NextS8]_vars

\* C30: with the default configuration and rules (oil_rate, 500.0, Good) is
\* accepted and (oil_rate, -10.0, Good) is rejected by range; after 50
\* oil_rate samples around 100 with jitter <= 10, (oil_rate, 1000.0, Good)
\* is rejected as an anomaly and (oil_rate, 105.0, Good) is accepted.
C30_DefaultScenario ==
    (dvOps > 0 /\ dvReading.tag_name = "oil_rate" /\ dvReading.quality = "Good") =>
        /\ dvReading.value = 500 => dvRet = "Ok"
        /\ dvReading.value = -10 => dvRet = "range"
        /\ (fed = SamplesFed /\ CountOf(dvPrev, "oil_rate") = SamplesFed) =>
               /\ dvReading.value = 1000 => dvRet = "anomaly"
               /\ dvReading.value = 105 => dvRet = "Ok"

-----------------------------------------------------------------------------
(* Claims about the Modbus address parser and the adapter factory.         *)

Register(type, index) == [ret |-> "Ok", register_type |-> type, index |-> index]

\* C31: parse_modbus_address gives the same result in the Modbus TCP and the
\* Modbus RTU adapter; a decimal integer in 1-9999 / 10001-19999 /
\* 30001-39999 / 40001-49999 parses to Coil / DiscreteInput / InputRegister
\* / HoldingRegister with index = address minus the range base; every other
\* integer and every non-numeric string is rejected with InvalidAddress.
C31_ModbusAddressParsing ==
    Returned("parse_modbus_address") =>
        LET s == call.address
            r == fnRet[1]
            d == IF s # <<>> /\ Head(s) = "+" THEN Tail(s) ELSE s
            numeric == d # <<>> /\ \A i \in DOMAIN d : IsDigit(d[i])
            v == DigitsValue(d, 0)
        IN  /\ r = ParseModbusAddress(s)
            /\ r = ParseModbusAddressRtu(s)
            /\ numeric =>
                 /\ v \in 1..9999 => r = Register("Coil", v - 1)
                 /\ v \in 10001..19999 => r = Register("DiscreteInput", v - 10001)
                 /\ v \in 30001..39999 => r = Register("InputRegister", v - 30001)
                 /\ v \in 40001..49999 => r = Register("HoldingRegister", v - 40001)
                 /\ (v = 0 \/ v = 10000 \/ v \in 20000..30000 \/ v = 40000
                     \/ v >= 50000) => r = [ret |-> "InvalidAddress"]
            /\ ~numeric => r = [ret |-> "InvalidAddress"]
            /\ s = <<"4", "0", "0", "0", "1">> => r = Register("HoldingRegister", 0)
            /\ s = <<"3", "0", "0", "0", "1">> => r = Register("InputRegister", 0)
            /\ s = <<"9", "9", "9", "9", "9">> => r.ret = "InvalidAddress"

\* "40100" parsed by the RTU adapter
C31_Witness ==
    /\ Returned("parse_modbus_address")
    /\ call.adapter = "Modbus-RTU"
    /\ call.address = <<"4", "0", "1", "0", "0">>
    /\ fnRet[1] = Register("HoldingRegister", 99)

(* the characters the normalization strips *)
Separators == {"-", "_", " ", "/", "."}

(* the tag in upper case with the separators stripped *)
Normalized(tag) ==
    SelectSeq(ToUppercase(tag), LAMBDA c : c \notin Separators)

\* C32: two protocol tags that are equal in upper case with separators
\* stripped give the same outcome of create_adapter; a supported tag yields
\* a new, not-connected adapter with that protocol's name, any other tag
\* fails with UnsupportedProtocol.
C32_FactoryNormalizesTag ==
    Returned("create_adapter") =>
        /\ \A t \in ProtocolTags :
               Normalized(t) = Normalized(call.protocol) =>
                   CreateAdapter(t) = fnRet[1]
        /\ fnRet[1].ret = "Ok" =>
               /\ fnRet[1].adapter.kind \in AdapterKinds
               /\ ~IsConnected(fnRet[1].adapter)
        /\ fnRet[1].ret # "Ok" => fnRet[1].ret = "UnsupportedProtocol"

-----------------------------------------------------------------------------
(* SpecLocks: health/mod.rs with its two tokio RwLocks.  Tasks share one   *)
(* HealthMonitor; a step of a task acquires the lock it awaits and runs    *)
(* to its next await.  Whether the circuit timeout has elapsed when        *)
(* can_attempt_connection reads the clock is left open.                    *)

MaxLockCalls == 4           \* calls started on the shared monitor

LockTasks == {"t1", "t2"}

LockThresholds == {1, 2}

InitLocks ==
    /\ now = 0
    /\ cfg \in { ReconnectionConfig(th, 1, 0) : th \in LockThresholds }
    /\ health = [circuit_breaker_state |-> "Closed", consecutive_failures |-> 0]
    /\ circuit_breaker_opened_at = "None"
    /\ healthLock = FreeLock
    /\ openedLock = FreeLock
    /\ tpc = [t \in LockTasks |-> "idle"]
    /\ lockCalls = 0
    /\ hm = NewMonitor /\ prev = NewMonitor /\ lastOp = "new" /\ ret = FALSE
    /\ lastRec = None /\ onlyFailures = TRUE /\ halfOpened = FALSE
    /\ recCalls = 0
    /\ DriverIdle
    /\ AggIdle
    /\ RouterIdle
    /\ AdapterIdle
    /\ FnIdle
    /\ ValidatorIdle
    /\ AddIdle
    /\ LegacyIdle

notLocks == <<now, cfg, hmVars, drvVars, aggVars, rtVars, adpVars, fnVars, dvVars,
              addVars, lgVars>>

(* the first await of each call *)
FirstAwait ==
    [ record_success            |-> "rs_health_write",
      record_failure            |-> "rf_health_write",
      record_connection_attempt |-> "rca_health_write",
      can_attempt_connection    |-> "ca_health_read" ]

(* a task calls one of the four methods *)
LkCall(t) ==
    /\ tpc[t] = "idle"
    /\ lockCalls < MaxLockCalls
    /\ lockCalls' = lockCalls + 1
    /\ \E m \in DOMAIN FirstAwait : tpc' = [tpc EXCEPT ![t] = FirstAwait[m]]
    /\ UNCHANGED <<health, circuit_breaker_opened_at, healthLock, openedLock,
                   notLocks>>

(* the lock a task awaits can be acquired *)
Ready(t) ==
    CASE tpc[t] \in {"rs_health_write", "rf_health_write", "rca_health_write",
                     "ca_half_open_write"} -> CanWrite(healthLock)
      [] tpc[t] \in {"rs_opened_write", "rf_opened_write"} -> CanWrite(openedLock)
      [] tpc[t] = "ca_health_read" -> CanRead(healthLock)
      [] tpc[t] = "ca_opened_read" -> CanRead(openedLock)
      [] OTHER -> FALSE

(* A record_failure that drops the health guard before it stamps *)
(* circuit_breaker_opened_at.                                     *)
HealthLockWhileStamping_dropped(t) == None

(* record_failure / record_success: the health write guard is alive while  *)
(* the task awaits circuit_breaker_opened_at.write()                       *)
HealthLockWhileStamping(t) == t

(* record_success: health.write() acquired, up to the next await *)
LkRecordSuccess(t) ==
    /\ tpc[t] = "rs_health_write"
    /\ Ready(t)
    /\ IF health.circuit_breaker_state # "Closed"
       THEN /\ health' = [health EXCEPT !.consecutive_failures = 0,
                                        !.circuit_breaker_state = "Closed"]
            /\ healthLock' = [healthLock EXCEPT !.w = HealthLockWhileStamping(t)]
            /\ tpc' = [tpc EXCEPT ![t] = "rs_opened_write"]
       ELSE /\ health' = [health EXCEPT !.consecutive_failures = 0]
            /\ healthLock' = healthLock
            /\ tpc' = [tpc EXCEPT ![t] = "idle"]
    /\ UNCHANGED <<circuit_breaker_opened_at, openedLock, lockCalls, notLocks>>

(* record_success: circuit_breaker_opened_at.write() acquired; = None, and *)
(* both guards are dropped                                                 *)
LkRecordSuccessStamp(t) ==
    /\ tpc[t] = "rs_opened_write"
    /\ Ready(t)
    /\ circuit_breaker_opened_at' = "None"
    /\ healthLock' = [healthLock EXCEPT !.w = IF @ = t THEN None ELSE @]
    /\ tpc' = [tpc EXCEPT ![t] = "idle"]
    /\ UNCHANGED <<health, openedLock, lockCalls, notLocks>>

(* record_failure: health.write() acquired, up to the next await *)
LkRecordFailure(t) ==
    /\ tpc[t] = "rf_health_write"
    /\ Ready(t)
    /\ LET n == health.consecutive_failures + 1
       IN  IF n >= cfg.circuit_breaker_threshold
              /\ health.circuit_breaker_state = "Closed"
           THEN /\ health' = [consecutive_failures |-> n,
                              circuit_breaker_state |-> "Open"]
                /\ healthLock' = [healthLock EXCEPT
                                     !.w = HealthLockWhileStamping(t)]
                /\ tpc' = [tpc EXCEPT ![t] = "rf_opened_write"]
           ELSE /\ health' = [health EXCEPT !.consecutive_failures = n]
                /\ healthLock' = healthLock
                /\ tpc' = [tpc EXCEPT ![t] = "idle"]
    /\ UNCHANGED <<circuit_breaker_opened_at, openedLock, lockCalls, notLocks>>

(* record_failure: circuit_breaker_opened_at.write() acquired; = Some(now) *)
LkRecordFailureStamp(t) ==
    /\ tpc[t] = "rf_opened_write"
    /\ Ready(t)
    /\ circuit_breaker_opened_at' = "Some"
    /\ healthLock' = [healthLock EXCEPT !.w = IF @ = t THEN None ELSE @]
    /\ tpc' = [tpc EXCEPT ![t] = "idle"]
    /\ UNCHANGED <<health, openedLock, lockCalls, notLocks>>

(* record_connection_attempt: one critical section under health.write() *)
LkRecordConnectionAttempt(t) ==
    /\ tpc[t] = "rca_health_write"
    /\ Ready(t)
    /\ tpc' = [tpc EXCEPT ![t] = "idle"]
    /\ UNCHANGED <<health, circuit_breaker_opened_at, healthLock, openedLock,
                   lockCalls, notLocks>>

(* can_attempt_connection: health.read() acquired; Closed and HalfOpen     *)
(* return true, Open awaits circuit_breaker_opened_at.read()               *)
LkCanAttempt(t) ==
    /\ tpc[t] = "ca_health_read"
    /\ Ready(t)
    /\ IF health.circuit_breaker_state = "Open"
       THEN /\ healthLock' = AddReader(healthLock, t)
            /\ tpc' = [tpc EXCEPT ![t] = "ca_opened_read"]
       ELSE /\ healthLock' = healthLock
            /\ tpc' = [tpc EXCEPT ![t] = "idle"]
    /\ UNCHANGED <<health, circuit_breaker_opened_at, openedLock, lockCalls,
                   notLocks>>

(* can_attempt_connection: the read guard of circuit_breaker_opened_at is  *)
(* a temporary of the if-let scrutinee and lives to the end of the if-let; *)
(* with the timeout elapsed the task drops the health guard and awaits     *)
(* health.write() in transition_to_half_open, else it returns false        *)
LkCanAttemptOpened(t) ==
    /\ tpc[t] = "ca_opened_read"
    /\ Ready(t)
    /\ \E elapsed \in BOOLEAN :
          IF circuit_breaker_opened_at = "Some" /\ elapsed
          THEN /\ openedLock' = AddReader(openedLock, t)
               /\ tpc' = [tpc EXCEPT ![t] = "ca_half_open_write"]
          ELSE /\ openedLock' = openedLock
               /\ tpc' = [tpc EXCEPT ![t] = "idle"]
    /\ healthLock' = DropReader(healthLock, t)
    /\ UNCHANGED <<health, circuit_breaker_opened_at, lockCalls, notLocks>>

(* transition_to_half_open: health.write() acquired; then the if-let ends  *)
LkTransitionToHalfOpen(t) ==
    /\ tpc[t] = "ca_half_open_write"
    /\ Ready(t)
    /\ health' = IF health.circuit_breaker_state = "Open"
                 THEN [circuit_breaker_state |-> "HalfOpen",
                       consecutive_failures |-> 0]
                 ELSE health
    /\ openedLock' = DropReader(openedLock, t)
    /\ tpc' = [tpc EXCEPT ![t] = "idle"]
    /\ UNCHANGED <<circuit_breaker_opened_at, healthLock, lockCalls, notLocks>>

NextLocks ==
    \E t \in LockTasks :
        \/ LkCall(t)
        \/ LkRecordSuccess(t)
        \/ LkRecordSuccessStamp(t)
        \/ LkRecordFailure(t)
        \/ LkRecordFailureStamp(t)
        \/ LkRecordConnectionAttempt(t)
        \/ LkCanAttempt(t)
        \/ LkCanAttemptOpened(t)
        \/ LkTransitionToHalfOpen(t)

SpecLocks == InitLocks /\ [][NextLocks]_vars

InCall(t) == tpc[t] # "idle"

\* C33: concurrent calls of record_success, record_failure,
\* record_connection_attempt and can_attempt_connection never deadlock:
\* there is no state in which tasks are inside calls and none of them can
\* acquire the lock it awaits.
C33_NoDeadlock ==
    ~ ( /\ \E t \in LockTasks : InCall(t)
        /\ \A t \in LockTasks : InCall(t) => ~Ready(t) )

\* C34: whenever the health lock is free or held by readers,
\* circuit_breaker_state = Closed implies circuit_breaker_opened_at is None
\* and circuit_breaker_state in {Open, HalfOpen} implies it is Some.
C34_BreakerAndTimestampAgree ==
    healthLock.w = None =>
        (health.circuit_breaker_state = "Closed"
            <=> circuit_breaker_opened_at = "None")

\* a reader holds the health lock and sees the breaker Open with its
\* timestamp
C34_Witness ==
    /\ healthLock.r # {}
    /\ health.circuit_breaker_state = "Open"
    /\ circuit_breaker_opened_at = "Some"

-----------------------------------------------------------------------------
(* Claims about the aggregator's flush clock and its progress.             *)

\* C35: a flush resets last_flush when the write succeeds and only then:
\* a step in which write_batch returns an error (the batch joins the lost
\* ones) leaves last_flush unchanged, and a step that changes last_flush is
\* the return of a successful write.
C35_FlushClockResetOnlyOnSuccess ==
    [][ /\ lost' # lost => last_flush' = last_flush
        /\ last_flush' # last_flush =>
               (writeResults' = writeResults + 1 /\ lost' = lost) ]_vars

(* SpecAggLive: the aggregator with time that never stops.  The clock is   *)
(* kept relative: now stays 0 and the two instants the ticker compares     *)
(* with it, last_flush and the next tick, move into the past; an instant   *)
(* older than one flush interval is as good as one flush interval old.     *)

(* A clock that stands still. *)
Elapse_frozen(instant, d, floor) == instant

(* `instant` seen d milliseconds later, not older than floor *)
Elapse(instant, d, floor) ==
    IF instant - d < floor THEN floor ELSE instant - d

(* Instant::now advances by AggTickMs *)
AggTimePasses ==
    /\ last_flush' = Elapse(last_flush, AggTickMs, 0 - aggCfg.buffer_duration_ms)
    /\ nextTick' = Elapse(nextTick, AggTickMs, 0 - aggCfg.buffer_duration_ms)
    /\ UNCHANGED <<now, cfg, hmVars, drvVars, rtVars, adpVars, fnVars, dvVars,
                   moreVars, aggCfg, buffer, bufLock, apc, readings, nextId,
                   lastTake, extracted, writes, writeResults, lost, addRet>>

NextAggLive ==
    \/ RouterAddReading
    \/ RouterPush
    \/ FlusherFlush
    \/ \E t \in Tasks : Acquire(t)
    \/ \E t \in Tasks : Extract(t)
    \/ \E t \in Tasks : CallWriter(t)
    \/ \E t \in Tasks : FlushWriteReturn(t)
    \/ TickerTick
    \/ TickerWriteReturn
    \/ AggTimePasses

(* the ticker task keeps running, code that holds the buffer lock runs to  *)
(* its end, writer calls return, time passes                               *)
FairAgg ==
    /\ WF_vars(TickerTick)
    /\ WF_vars(Acquire("ticker"))
    /\ WF_vars(RouterPush)
    /\ \A t \in Tasks : WF_vars(Extract(t))
    /\ \A t \in Tasks : WF_vars(CallWriter(t))
    /\ \A t \in Tasks : WF_vars(FlushWriteReturn(t))
    /\ WF_vars(TickerWriteReturn)
    /\ WF_vars(AggTimePasses)

(* one aggregator whose buffer takes more than one reading *)
InitAggLive ==
    /\ InitAgg
    /\ aggCfg.max_buffer_size = MaxBufferSize
    /\ aggCfg.buffer_duration_ms > AggTickMs

SpecAggLive == InitAggLive /\ [][NextAggLive]_vars /\ FairAgg

InBuffer(i) == \E k \in DOMAIN buffer : buffer[k] = i
HandedToWriter(i) == \E k \in DOMAIN writes : i \in Range(writes[k])

\* C36: every reading appended by add_reading is eventually extracted from
\* the buffer and handed to write_batch in some batch, given that the
\* ticker keeps ticking and writer calls return.
C36_EveryReadingIsFlushed ==
    \A i \in 1..MaxReadings : InBuffer(i) ~> HandedToWriter(i)

\* the ticker has written a batch after a size-triggered flush of the
\* router stamped the flush clock
C36_Witness ==
    \E j, k \in DOMAIN extracted :
        /\ j < k
        /\ extracted[j].by = "router"
        /\ extracted[k].by = "ticker"
        /\ Len(writes) >= k

-----------------------------------------------------------------------------
(* SpecDriverFail: reconnect with a connect_fn that always fails, and a    *)
(* clock that does not stop.                                               *)

(* max_retry_attempts below, at and above the breaker thresholds; a driver *)
(* with the largest threshold and limit connects MaxConnects times         *)
RetryLimits == 0..(MaxConnects - MaxThreshold)

ConfigsDriverFail ==
    { ReconnectionConfig(t, c, m) :
        t \in 1..MaxThreshold, c \in DriverTimeoutChoices, m \in RetryLimits }

(* the connection whose reconnect is running; the drivers of different    *)
(* connections share no state but the clock                                *)
Reconnecting == "conn1"

InitDriverFail ==
    /\ now = 0
    /\ cfg \in ConfigsDriverFail
    /\ mons = [c \in Conns |-> NewMonitor]
    /\ dpc = [c \in Conns |-> IF c = Reconnecting THEN "loop" ELSE "idle"]
    /\ wakeAt = [c \in Conns |-> 0]
    /\ sleepDur = [c \in Conns |-> 0]
    /\ iterCan = [c \in Conns |-> FALSE]
    /\ iterMax = [c \in Conns |-> FALSE]
    /\ connects = [c \in Conns |-> 0]
    /\ fatalSeen = [c \in Conns |-> FALSE]
    /\ result = [c \in Conns |-> None]
    /\ hm = NewMonitor /\ prev = NewMonitor /\ lastOp = "new" /\ ret = FALSE
    /\ lastRec = None /\ onlyFailures = TRUE /\ halfOpened = FALSE
    /\ recCalls = 0
    /\ AggIdle
    /\ RouterIdle
    /\ AdapterIdle
    /\ FnIdle
    /\ ValidatorIdle
    /\ MoreIdle

(* Time passes up to the end of the nearest pending sleep. *)
DriverTimePasses ==
    /\ \E c \in Conns : Sleeping(c) /\ wakeAt[c] > now
    /\ LET pending == { wakeAt[c] : c \in { d \in Conns : Sleeping(d) /\ wakeAt[d] > now } }
       IN  now' = CHOOSE t \in pending : \A u \in pending : t <= u
    /\ UNCHANGED <<cfg, drvVars, hmVars, aggVars, rtVars, adpVars, fnVars, dvVars, moreVars>>

NextDriverFail ==
    \/ \E c \in Conns : DriverIterate(c)
    \/ \E c \in Conns : DriverConnectErr(c)
    \/ \E c \in Conns : DriverWake(c)
    \/ DriverTimePasses

(* each reconnect task keeps running, connect_fn returns, time passes *)
FairDriver ==
    /\ \A c \in Conns : WF_vars(DriverIterate(c))
    /\ \A c \in Conns : WF_vars(DriverConnectErr(c))
    /\ \A c \in Conns : WF_vars(DriverWake(c))
    /\ WF_vars(DriverTimePasses)

SpecDriverFail == InitDriverFail /\ [][NextDriverFail]_vars /\ FairDriver

GaveUp(c) == result[c] = "Err(ConnectionFailed)"

\* C37: if max_retry_attempts > 0 and every connect attempt fails,
\* reconnect eventually returns the ConnectionFailed error, for every
\* circuit_breaker_threshold (smaller than, equal to or larger than
\* max_retry_attempts); with max_retry_attempts = 0 it never gives up.
C37_ReconnectGivesUp ==
    /\ <>(cfg.max_retry_attempts = 0 \/ GaveUp(Reconnecting))
    /\ [](cfg.max_retry_attempts = 0 => ~GaveUp(Reconnecting))

\* a driver whose failures opened the breaker waited for the half-open
\* transition, which reset the failure count, and still gave up
C37_Witness ==
    \E c \in Conns :
        /\ GaveUp(c)
        /\ cfg.circuit_breaker_threshold <= cfg.max_retry_attempts
        /\ mons[c].circuit_breaker_state = "HalfOpen"
        /\ connects[c] = cfg.circuit_breaker_threshold + cfg.max_retry_attempts

-----------------------------------------------------------------------------
(* SpecAdd: tenant_router_v2.rs, the gRPC API.  Each call of            *)
(* add_connection, remove_connection or stop_all_connections runs in a     *)
(* task of its own; the calls interleave at their awaits.  Adapters are    *)
(* numbered in the order of their creation.  ensure_aggregator of          *)
(* tenant_router.rs is the same code.                                      *)

GrpcTasks == {"grpc1", "grpc2"}

MaxAddOps == 4          \* API calls started
MaxAddReadings == 1     \* readings routed to the aggregators

(* An entry test that finds every entry vacant. *)
Vacant_always(map, key) == TRUE

(* ensure_aggregator: Entry::Vacant(e) = aggregators.entry(tenant_id) *)
Vacant(map, key) == key \notin DOMAIN map

(* HashMap::insert: the map with key bound to value *)
MapInsert(map, key, value) ==
    [k \in DOMAIN map \cup {key} |-> IF k = key THEN value ELSE map[k]]

(* HashMap::insert: the values it returns, the one bound before *)
MapInsertOld(map, key) == IF key \in DOMAIN map THEN {map[key]} ELSE {}

(* HashMap::remove: the map without key *)
MapRemove(map, key) == [k \in DOMAIN map \ {key} |-> map[k]]

InitAdd ==
    /\ now = 0
    /\ cfg \in {ReconnectionConfig(1, 1, 0)}
    /\ adapterMap = <<>>
    /\ aggregatorMap = <<>>
    /\ adapterLock = FreeLock
    /\ aggregatorLock = FreeLock
    /\ gpc = [t \in GrpcTasks |-> "idle"]
    /\ gConn = [t \in GrpcTasks |-> None]
    /\ gAdapter = [t \in GrpcTasks |-> 0]
    /\ nextAdapter = 1
    /\ created = [t \in Tenants |-> 0]
    /\ tickers = [t \in Tenants |-> 0]
    /\ disconnected = {}
    /\ discarded = {}
    /\ addOps = 0
    /\ routed = 0
    /\ hm = NewMonitor /\ prev = NewMonitor /\ lastOp = "new" /\ ret = FALSE
    /\ lastRec = None /\ onlyFailures = TRUE /\ halfOpened = FALSE
    /\ recCalls = 0
    /\ DriverIdle
    /\ AggIdle
    /\ RouterIdle
    /\ AdapterIdle
    /\ FnIdle
    /\ ValidatorIdle
    /\ LocksIdle
    /\ LegacyIdle

notAdd == <<now, cfg, hmVars, drvVars, aggVars, rtVars, adpVars, fnVars, dvVars,
            lkVars, lgVars>>

(* add_connection(config) is called: start_connection begins *)
GAddCall(t, c) ==
    /\ gpc[t] = "idle"
    /\ addOps < MaxAddOps
    /\ gpc' = [gpc EXCEPT ![t] = "ensure"]
    /\ gConn' = [gConn EXCEPT ![t] = c]
    /\ addOps' = addOps + 1
    /\ UNCHANGED <<notAdd, adapterMap, aggregatorMap, adapterLock,
                   aggregatorLock, gAdapter, nextAdapter, created, tickers,
                   disconnected, discarded, routed>>

(* ensure_aggregator: self.aggregators.write().await is granted; for a    *)
(* vacant entry Aggregator::new, else the guard is dropped at the return   *)
GEnsureAcquire(t) ==
    /\ gpc[t] = "ensure"
    /\ CanWrite(aggregatorLock)
    /\ LET tenant == ConnTenant[gConn[t]]
       IN  IF Vacant(aggregatorMap, tenant)
           THEN /\ aggregatorLock' = [aggregatorLock EXCEPT !.w = t]
                /\ created' = [created EXCEPT ![tenant] = @ + 1]
                /\ gpc' = [gpc EXCEPT ![t] = "agg_starting"]
           ELSE /\ gpc' = [gpc EXCEPT ![t] = "connecting"]
                /\ UNCHANGED <<aggregatorLock, created>>
    /\ UNCHANGED <<notAdd, adapterMap, aggregatorMap, adapterLock, gConn,
                   gAdapter, nextAdapter, tickers, disconnected, discarded,
                   addOps, routed>>

(* ensure_aggregator: aggregator.start().await spawned the ticker and      *)
(* returned, e.insert(aggregator), the guard is dropped                    *)
GAggStartReturn(t) ==
    /\ gpc[t] = "agg_starting"
    /\ LET tenant == ConnTenant[gConn[t]]
       IN  /\ tickers' = [tickers EXCEPT ![tenant] = @ + 1]
           /\ aggregatorMap' = MapInsert(aggregatorMap, tenant,
                                  [inst |-> created[tenant], buffer |-> <<>>])
    /\ aggregatorLock' = [aggregatorLock EXCEPT !.w = None]
    /\ gpc' = [gpc EXCEPT ![t] = "connecting"]
    /\ UNCHANGED <<notAdd, adapterMap, adapterLock, gConn, gAdapter,
                   nextAdapter, created, disconnected, discarded, addOps,
                   routed>>

(* start_connection: create_adapter, adapter.connect and adapter.subscribe *)
(* returned; an error of any of them is returned through `?`               *)
GConnectReturn(t) ==
    /\ gpc[t] = "connecting"
    /\ \E ok \in BOOLEAN :
         IF ok THEN /\ gAdapter' = [gAdapter EXCEPT ![t] = nextAdapter]
                    /\ nextAdapter' = nextAdapter + 1
                    /\ gpc' = [gpc EXCEPT ![t] = "inserting"]
                    /\ UNCHANGED gConn
               ELSE /\ gpc' = [gpc EXCEPT ![t] = "idle"]
                    /\ gConn' = [gConn EXCEPT ![t] = None]
                    /\ UNCHANGED <<gAdapter, nextAdapter>>
    /\ UNCHANGED <<notAdd, adapterMap, aggregatorMap, adapterLock,
                   aggregatorLock, created, tickers, disconnected, discarded,
                   addOps, routed>>

(* start_connection: self.adapters.write().await.insert(connection_id,     *)
(* adapter); the value insert returns is dropped                           *)
GInsert(t) ==
    /\ gpc[t] = "inserting"
    /\ CanWrite(adapterLock)
    /\ adapterMap' = MapInsert(adapterMap, gConn[t], gAdapter[t])
    /\ discarded' = discarded \cup MapInsertOld(adapterMap, gConn[t])
    /\ gpc' = [gpc EXCEPT ![t] = "idle"]
    /\ gConn' = [gConn EXCEPT ![t] = None]
    /\ gAdapter' = [gAdapter EXCEPT ![t] = 0]
    /\ UNCHANGED <<notAdd, aggregatorMap, adapterLock, aggregatorLock,
                   nextAdapter, created, tickers, disconnected, addOps, routed>>

(* remove_connection: adapters.write().await, adapters.remove(&id); for a  *)
(* present id adapter.disconnect() is called under the guard               *)
GRemoveCall(t, c) ==
    /\ gpc[t] = "idle"
    /\ addOps < MaxAddOps
    /\ CanWrite(adapterLock)
    /\ addOps' = addOps + 1
    /\ IF c \in DOMAIN adapterMap
       THEN /\ adapterMap' = MapRemove(adapterMap, c)
            /\ adapterLock' = [adapterLock EXCEPT !.w = t]
            /\ gAdapter' = [gAdapter EXCEPT ![t] = adapterMap[c]]
            /\ gConn' = [gConn EXCEPT ![t] = c]
            /\ disconnected' = disconnected \cup {adapterMap[c]}
            /\ gpc' = [gpc EXCEPT ![t] = "rm_disconnecting"]
       ELSE UNCHANGED <<adapterMap, adapterLock, gAdapter, gConn,
                        disconnected, gpc>>
    /\ UNCHANGED <<notAdd, aggregatorMap, aggregatorLock, nextAdapter,
                   created, tickers, discarded, routed>>

(* remove_connection: disconnect returned; the adapter and the guard are   *)
(* dropped at the end of the function                                      *)
GRemoveReturn(t) ==
    /\ gpc[t] = "rm_disconnecting"
    /\ discarded' = discarded \cup {gAdapter[t]}
    /\ adapterLock' = [adapterLock EXCEPT !.w = None]
    /\ gpc' = [gpc EXCEPT ![t] = "idle"]
    /\ gConn' = [gConn EXCEPT ![t] = None]
    /\ gAdapter' = [gAdapter EXCEPT ![t] = 0]
    /\ UNCHANGED <<notAdd, adapterMap, aggregatorMap, aggregatorLock,
                   nextAdapter, created, tickers, disconnected, addOps,
                   routed>>

(* stop_all_connections: under the adapters write guard every adapter of   *)
(* adapters.drain() is disconnected and dropped                            *)
GStopAll(t) ==
    /\ gpc[t] = "idle"
    /\ addOps < MaxAddOps
    /\ CanWrite(adapterLock)
    /\ addOps' = addOps + 1
    /\ disconnected' = disconnected \cup Range(adapterMap)
    /\ discarded' = discarded \cup Range(adapterMap)
    /\ adapterMap' = <<>>
    /\ UNCHANGED <<notAdd, aggregatorMap, adapterLock, aggregatorLock, gpc,
                   gConn, gAdapter, nextAdapter, created, tickers, routed>>

(* poll loop: aggregators.read().await, aggregators_read.get(&tenant_id)   *)
(* and add_reading of one reading of the tenant                            *)
GRouteReading(tenant) ==
    /\ routed < MaxAddReadings
    /\ CanRead(aggregatorLock)
    /\ tenant \in DOMAIN aggregatorMap
    /\ routed' = routed + 1
    /\ aggregatorMap' = [aggregatorMap EXCEPT
                            ![tenant].buffer = Append(@, routed + 1)]
    /\ UNCHANGED <<notAdd, adapterMap, adapterLock, aggregatorLock, gpc,
                   gConn, gAdapter, nextAdapter, created, tickers,
                   disconnected, discarded, addOps>>

NextAdd ==
    \/ \E t \in GrpcTasks, c \in RConns : GAddCall(t, c)
    \/ \E t \in GrpcTasks : GEnsureAcquire(t)
    \/ \E t \in GrpcTasks : GAggStartReturn(t)
    \/ \E t \in GrpcTasks : GConnectReturn(t)
    \/ \E t \in GrpcTasks : GInsert(t)
    \/ \E t \in GrpcTasks, c \in RConns : GRemoveCall(t, c)
    \/ \E t \in GrpcTasks : GRemoveReturn(t)
    \/ \E t \in GrpcTasks : GStopAll(t)
    \/ \E tenant \in Tenants : GRouteReading(tenant)

SpecAdd == InitAdd /\ [][NextAdd]_vars

IsPrefix(p, q) == Len(p) <= Len(q) /\ SubSeq(q, 1, Len(p)) = p

\* C38: for every tenant, under any interleaving of concurrent
\* add_connection calls, at most one Aggregator is ever created and at most
\* one ticker task is started for it; an aggregator in the map is never
\* replaced or removed and the readings it buffers are not discarded by
\* adding a connection.
C38_OneAggregatorPerTenant ==
    [][ /\ \A t \in Tenants : created'[t] <= 1 /\ tickers'[t] <= 1
        /\ \A t \in DOMAIN aggregatorMap :
              /\ t \in DOMAIN aggregatorMap'
              /\ aggregatorMap'[t].inst = aggregatorMap[t].inst
              /\ IsPrefix(aggregatorMap[t].buffer, aggregatorMap'[t].buffer) ]_vars

\* two add_connection calls of one tenant overlapped, the second waiting
\* while the first started the aggregator; the aggregator has buffered a
\* reading and both calls are past ensure_aggregator
C38_Witness ==
    /\ \A t \in GrpcTasks : gpc[t] \in {"connecting", "inserting"}
    /\ gConn["grpc1"] = gConn["grpc2"]
    /\ aggregatorMap[ConnTenant[gConn["grpc1"]]].buffer # <<>>

\* C39: every adapter that was connected and inserted into the adapter map
\* has disconnect called on it before it is discarded, whether it leaves
\* the map by remove_connection, by stop_all_connections or by
\* add_connection with a connection id that is already present.
C39_DisconnectBeforeDiscard ==
    discarded \subseteq disconnected

-----------------------------------------------------------------------------
(* SpecLegacy: tenant_router.rs and opc_client.rs, the OPC-UA router.  The *)
(* gRPC calls run in tasks of their own; start_connection spawns one       *)
(* connect_with_retry task per call, which the runtime schedules at any    *)
(* later time.                                                             *)

MaxLegacyOps == 3       \* API calls started

InitLegacy ==
    /\ now = 0
    /\ cfg \in {ReconnectionConfig(1, 1, 0)}
    /\ opc_clients = {}
    /\ ACTIVE_CONNECTIONS = [t \in Tenants |-> 0]
    /\ connectTasks = [c \in RConns |-> 0]
    /\ lpc = [t \in GrpcTasks |-> "idle"]
    /\ lConn = [t \in GrpcTasks |-> None]
    /\ legacyOps = 0
    /\ hm = NewMonitor /\ prev = NewMonitor /\ lastOp = "new" /\ ret = FALSE
    /\ lastRec = None /\ onlyFailures = TRUE /\ halfOpened = FALSE
    /\ recCalls = 0
    /\ DriverIdle
    /\ AggIdle
    /\ RouterIdle
    /\ AdapterIdle
    /\ FnIdle
    /\ ValidatorIdle
    /\ LocksIdle
    /\ AddIdle

notLegacy == <<now, cfg, hmVars, drvVars, aggVars, rtVars, adpVars, fnVars,
               dvVars, lkVars, addVars>>

(* IntGauge::inc / IntGauge::dec on the tenant's label *)
GaugeInc(gauge, tenant) == [gauge EXCEPT ![tenant] = @ + 1]
GaugeDec(gauge, tenant) == [gauge EXCEPT ![tenant] = @ - 1]

(* add_connection -> start_connection: ensure_aggregator, OpcClient::new   *)
(* (its error is returned through `?`), tokio::spawn of connect_with_retry *)
(* on a clone of the client                                                *)
LAddCall(t, c) ==
    /\ lpc[t] = "idle"
    /\ legacyOps < MaxLegacyOps
    /\ legacyOps' = legacyOps + 1
    /\ \E ok \in BOOLEAN :
         IF ok THEN /\ connectTasks' = [connectTasks EXCEPT ![c] = @ + 1]
                    /\ lpc' = [lpc EXCEPT ![t] = "inserting"]
                    /\ lConn' = [lConn EXCEPT ![t] = c]
               ELSE UNCHANGED <<connectTasks, lpc, lConn>>
    /\ UNCHANGED <<notLegacy, opc_clients, ACTIVE_CONNECTIONS>>

(* start_connection: self.opc_clients.write().await.insert(connection_id,  *)
(* client)                                                                 *)
LInsert(t) ==
    /\ lpc[t] = "inserting"
    /\ opc_clients' = opc_clients \cup {lConn[t]}
    /\ lpc' = [lpc EXCEPT ![t] = "idle"]
    /\ lConn' = [lConn EXCEPT ![t] = None]
    /\ UNCHANGED <<notLegacy, ACTIVE_CONNECTIONS, connectTasks, legacyOps>>

(* the spawned task runs connect_with_retry: connect_and_subscribe         *)
(* increments the gauge and returns Ok at the first attempt                *)
LConnectTask(c) ==
    /\ connectTasks[c] > 0
    /\ connectTasks' = [connectTasks EXCEPT ![c] = @ - 1]
    /\ ACTIVE_CONNECTIONS' = GaugeInc(ACTIVE_CONNECTIONS, ConnTenant[c])
    /\ UNCHANGED <<notLegacy, opc_clients, lpc, lConn, legacyOps>>

(* remove_connection: under the opc_clients write guard the client, if     *)
(* present, is removed and client.disconnect() decrements the gauge        *)
LRemove(t, c) ==
    /\ lpc[t] = "idle"
    /\ legacyOps < MaxLegacyOps
    /\ legacyOps' = legacyOps + 1
    /\ IF c \in opc_clients
       THEN /\ opc_clients' = opc_clients \ {c}
            /\ ACTIVE_CONNECTIONS' = GaugeDec(ACTIVE_CONNECTIONS, ConnTenant[c])
       ELSE UNCHANGED <<opc_clients, ACTIVE_CONNECTIONS>>
    /\ UNCHANGED <<notLegacy, connectTasks, lpc, lConn>>

RECURSIVE DisconnectAll(_, _)
(* stop_all_connections: client.disconnect() for every client of drain() *)
DisconnectAll(gauge, clients) ==
    IF clients = {} THEN gauge
    ELSE LET c == CHOOSE x \in clients : TRUE
         IN  DisconnectAll(GaugeDec(gauge, ConnTenant[c]), clients \ {c})

(* stop_all_connections, under the opc_clients write guard *)
LStopAll(t) ==
    /\ lpc[t] = "idle"
    /\ legacyOps < MaxLegacyOps
    /\ legacyOps' = legacyOps + 1
    /\ ACTIVE_CONNECTIONS' = DisconnectAll(ACTIVE_CONNECTIONS, opc_clients)
    /\ opc_clients' = {}
    /\ UNCHANGED <<notLegacy, connectTasks, lpc, lConn>>

NextLegacy ==
    \/ \E t \in GrpcTasks, c \in RConns : LAddCall(t, c)
    \/ \E t \in GrpcTasks : LInsert(t)
    \/ \E c \in RConns : LConnectTask(c)
    \/ \E t \in GrpcTasks, c \in RConns : LRemove(t, c)
    \/ \E t \in GrpcTasks : LStopAll(t)

SpecLegacy == InitLegacy /\ [][NextLegacy]_vars

\* C40: in the legacy router, under any interleaving of add_connection, the
\* connect task it spawns, remove_connection and stop_all_connections, the
\* per-tenant active-connections gauge is never negative, and a connection
\* that is not in the client map and is not being added has no connect
\* task still to run.
C40_GaugeNeverNegative ==
    /\ \A t \in Tenants : ACTIVE_CONNECTIONS[t] >= 0
    /\ \A c \in RConns :
          (c \notin opc_clients /\ \A t \in GrpcTasks : lConn[t] # c)
              => connectTasks[c] = 0
====
